---------------------------- MODULE Spec2Model ----------------------------
(***************************************************************************)
(* The virtual-company runtime of CC-Helper: the Store                     *)
(* (lib/virtual-company-storage.js) and the Agent Runner / registry        *)
(* (lib/virtual-company-runtime.js).                                       *)
(*                                                                         *)
(* The whole program state is one record, the "world" w.  Every function   *)
(* of the source is an operator from a world to a world (or to a record    *)
(* [w, ret] when the function returns a value), so that a handler that     *)
(* calls several Store functions in one synchronous run is one action.     *)
(* A runner is suspended only at an await; the code between two awaits is  *)
(* one atomic step of the model.                                           *)
(***************************************************************************)
EXTENDS Integers, Sequences, FiniteSets, TLC

VARIABLES
    workspaces,     \* cache.workspaces: the ids of the workspaces
    agents,         \* cache.agents: id -> [workspaceId, parentId, status]
    groups,         \* cache.groups, in insertion order (Object.values order)
    messages,       \* cache.messages: groupId -> sequence of messages
    lastReads,      \* cache.lastReads: <<agentId, groupId>> -> message id
    nextGroupId,    \* the next fresh group id (randomUUID)
    nextMsgId,      \* the next fresh message id (randomUUID)
    activeRunners,  \* the registry: agentId -> index of its runner object
    runners,        \* every AgentRunner object ever constructed
    lostWake,       \* history: per agent, messages whose wake hit a busy runner
    budget,         \* the bound on the messages sent in this behaviour
    p2pCalls,       \* history: the latest consecutive getOrCreateP2P calls
    sentLog,        \* history: groupId -> every message sent to it, in call order
    marked,         \* history: the <<agentId, groupId>> pairs given to markAsRead
    lastCall,       \* history: the latest call made by a driver, and its result
    spawned,        \* history: the commands handed to a bash subprocess
    protocolCache,  \* PROTOCOL_CACHE of the model router: url -> backend
    calls,          \* the callLLM invocations, each with its attempts
    flush,          \* flushTimer, the live timers, and the durable storage
    transcript      \* `messages`, `toolResults` and response.toolCalls of the
                    \* running respondToMessages; the llmHistory stored

vars == <<workspaces, agents, groups, messages, lastReads, nextGroupId,
          nextMsgId, activeRunners, runners, lostWake, budget,
          p2pCalls, sentLog, marked, lastCall, spawned, protocolCache,
          calls, flush, transcript>>

\* what the runtime and the Store leave alone
rest == <<marked, lastCall, spawned, protocolCache, calls, flush, transcript>>

-----------------------------------------------------------------------------
(* Bounds of the model *)

MaxMsgs == 3        \* messages sent in one behaviour of the runtime
MaxToolMsgs == 2    \* the same, where the Gateway may ask for tools
MaxE2EMsgs == 4     \* the same, in the end-to-end scenario
MaxGroups == 4      \* groups created in one behaviour
MaxRunners == 2     \* AgentRunner objects constructed in one behaviour
MaxToolCalls == 1   \* tool calls carried by one Gateway response
MaxStoreMsgs == 3   \* messages sent in one behaviour of the Store
MaxCursorMsgs == 2  \* the same, where the read cursors are driven
MaxCalls == 2       \* callLLM invocations in one behaviour
MaxExecMsgs == 1    \* messages sent where executeTool is driven directly
MaxExecRunners == 3 \* runners where executeTool is driven directly
MaxBashCalls == 2   \* subprocesses started in one behaviour
MaxFlushOps == 3    \* timers set in one behaviour
MaxOwnMsgs == 4     \* messages sent where one runner serves two groups
MaxReportMsgs == 2  \* messages sent where agents report and delegate
MaxHistMsgs == 2    \* messages sent where the transcript is recorded
MaxResponses == 6   \* Gateway responses where the transcript is recorded
MaxWindowMsgs == 2  \* messages sent after a backlog as long as the window
MaxWakeMsgs == 3    \* messages sent where redundant wakes are delivered
MaxRegistryMsgs == 1    \* messages sent where the registry is driven
MaxThrowMsgs == 3       \* messages sent where the Gateway may fail
MaxRegistryCalls == 4   \* calls of the registry's operations, the same

(* Program constants *)

NULL == 0                       \* the not-found sentinel (null)
MAX_MESSAGES_PER_GROUP == 200
maxToolRounds == 5
historyLimit == 20             \* the window of buildLLMMessages

NoAgent == "none"               \* parentId: null
Human == "hum"
CEO == "ceo"
Dev == "dev"
Sub == "sub"                    \* the id the next created agent gets
W1 == "w1"

LaunchAgents == {Human, CEO, Dev}
AgentPool == LaunchAgents \cup {Sub}

-----------------------------------------------------------------------------
(* Array helpers, as the JavaScript built-ins compute them *)

Min(S) == CHOOSE x \in S : \A y \in S : x <= y

\* Array.prototype.includes
includes(seq, x) == \E i \in 1..Len(seq) : seq[i] = x

\* Array.prototype.slice(-n): the last n elements (the whole array if shorter)
sliceLast(seq, n) ==
    IF Len(seq) <= n THEN seq ELSE SubSeq(seq, Len(seq) - n + 1, Len(seq))

\* a variant of filterNotSender that filters nothing out
filterNotSender_KeepAll(seq, a) == seq

\* Array.prototype.filter
RECURSIVE filterNotSender(_, _)
filterNotSender(seq, a) ==
    IF seq = <<>> THEN <<>>
    ELSE IF Head(seq).senderId # a
         THEN <<Head(seq)>> \o filterNotSender(Tail(seq), a)
         ELSE filterNotSender(Tail(seq), a)

\* Array.prototype.findIndex on message ids, 1-based; 0 stands for -1
findIndex(seq, id) ==
    LET hits == {i \in 1..Len(seq) : seq[i].id = id}
    IN IF hits = {} THEN 0 ELSE Min(hits)

\* [...new Set(seq)]: first occurrences, in order
RECURSIVE uniq(_)
uniq(seq) ==
    IF seq = <<>> THEN <<>>
    ELSE LET init == uniq(SubSeq(seq, 1, Len(seq) - 1))
             last == seq[Len(seq)]
         IN IF includes(init, last) THEN init ELSE Append(init, last)

ids(seq) == [i \in 1..Len(seq) |-> seq[i].id]
Range(seq) == {seq[i] : i \in 1..Len(seq)}

-----------------------------------------------------------------------------
(* The world record *)

World ==
    [workspaces |-> workspaces, agents |-> agents, groups |-> groups, messages |-> messages,
     lastReads |-> lastReads, nextGroupId |-> nextGroupId,
     nextMsgId |-> nextMsgId, activeRunners |-> activeRunners,
     runners |-> runners, lostWake |-> lostWake]

Become(w) ==
    /\ workspaces' = w.workspaces
    /\ agents' = w.agents
    /\ groups' = w.groups
    /\ messages' = w.messages
    /\ lastReads' = w.lastReads
    /\ nextGroupId' = w.nextGroupId
    /\ nextMsgId' = w.nextMsgId
    /\ activeRunners' = w.activeRunners
    /\ runners' = w.runners
    /\ lostWake' = w.lostWake

-----------------------------------------------------------------------------
(* Store: lib/virtual-company-storage.js *)

createWorkspace(w, id) ==
    [w EXCEPT !.workspaces = @ \cup {id}]

\* a variant of deleteWorkspace that drops every group
deleteWorkspace_AllGroups(w, id) ==
    [w EXCEPT !.workspaces = @ \ {id},
              !.agents = [a \in {x \in DOMAIN w.agents :
                                    w.agents[x].workspaceId # id} |-> @[a]],
              !.groups = <<>>]

deleteWorkspace(w, id) ==
    LET other(x) == x.workspaceId # id
    IN [w EXCEPT !.workspaces = @ \ {id},
                 !.agents = [a \in {x \in DOMAIN w.agents :
                                       other(w.agents[x])} |-> @[a]],
                 !.groups = SelectSeq(@, other)]

createAgent(w, id, workspaceId, parentId) ==
    [w EXCEPT !.agents = (id :> [workspaceId |-> workspaceId,
                                 parentId |-> parentId,
                                 status |-> "idle"]) @@ @]

updateAgentStatus(w, id, status) ==
    IF id \notin DOMAIN w.agents THEN w
    ELSE [w EXCEPT !.agents[id].status = status]

createGroup(w, workspaceId, memberIds) ==
    LET id == w.nextGroupId
    IN [w |-> [w EXCEPT !.groups = Append(@, [id |-> id,
                                              workspaceId |-> workspaceId,
                                              memberIds |-> memberIds]),
                        !.nextGroupId = id + 1],
        ret |-> id]

\* a variant of P2PMatch that compares the members in the order given
P2PMatch_Ordered(g, workspaceId, agentId1, agentId2) ==
    /\ g.workspaceId = workspaceId
    /\ Len(g.memberIds) = 2
    /\ g.memberIds[1] = agentId1
    /\ g.memberIds[2] = agentId2

\* the predicate of the find() in getOrCreateP2P
P2PMatch(g, workspaceId, agentId1, agentId2) ==
    /\ g.workspaceId = workspaceId
    /\ Len(g.memberIds) = 2
    /\ includes(g.memberIds, agentId1)
    /\ includes(g.memberIds, agentId2)

getOrCreateP2P(w, workspaceId, agentId1, agentId2) ==
    LET existing == {i \in 1..Len(w.groups) :
                        P2PMatch(w.groups[i], workspaceId, agentId1, agentId2)}
    IN IF existing # {}
       THEN [w |-> w, ret |-> w.groups[Min(existing)].id]
       ELSE createGroup(w, workspaceId, <<agentId1, agentId2>>)

getGroup(w, id) ==
    LET hits == {i \in 1..Len(w.groups) : w.groups[i].id = id}
    IN IF hits = {} THEN NULL ELSE Min(hits)

listGroupsByAgent(w, agentId) ==
    LET RECURSIVE pick(_)
        pick(i) ==
            IF i > Len(w.groups) THEN <<>>
            ELSE IF includes(w.groups[i].memberIds, agentId)
                 THEN <<w.groups[i].id>> \o pick(i + 1)
                 ELSE pick(i + 1)
    IN pick(1)

groupMessages(w, groupId) ==
    IF groupId \in DOMAIN w.messages THEN w.messages[groupId] ELSE <<>>

\* The array object behind cache.messages[groupId] is replaced when the list
\* is trimmed: a runner whose `unread` is that very array keeps the old
\* object, whose last element is the message just pushed.
detachUnread(rs, groupId, msgId) ==
    [i \in 1..Len(rs) |->
        IF rs[i].unreadLive /\ rs[i].groups # <<>> /\ Head(rs[i].groups) = groupId
        THEN [rs[i] EXCEPT !.unreadLive = FALSE, !.unreadLast = msgId]
        ELSE rs[i]]

\* a variant of trimOld that keeps the head of the list
trimOld_KeepOldest(list) ==
    IF Len(list) > MAX_MESSAGES_PER_GROUP
    THEN SubSeq(list, 1, MAX_MESSAGES_PER_GROUP)
    ELSE list

\* the clean-up of sendMessage: slice(-MAX_MESSAGES_PER_GROUP) over the limit
trimOld(list) ==
    IF Len(list) > MAX_MESSAGES_PER_GROUP
    THEN sliceLast(list, MAX_MESSAGES_PER_GROUP)
    ELSE list

sendMessage(w, groupId, senderId, type) ==
    LET id == w.nextMsgId
        msg == [id |-> id, senderId |-> senderId, type |-> type]
        pushed == Append(groupMessages(w, groupId), msg)
        over == Len(pushed) > MAX_MESSAGES_PER_GROUP
        kept == trimOld(pushed)
    IN [w |-> [w EXCEPT !.messages = (groupId :> kept) @@ @,
                        !.nextMsgId = id + 1,
                        !.runners = IF over THEN detachUnread(@, groupId, id) ELSE @],
        ret |-> id]

\* a variant of getUnreadMessages whose slice starts at the cursor itself
getUnreadMessages_Inclusive(w, groupId, afterMessageId) ==
    LET gm == groupMessages(w, groupId)
        afterIndex == findIndex(gm, afterMessageId)
    IN IF afterMessageId = NULL \/ afterIndex = 0
       THEN [live |-> groupId \in DOMAIN w.messages, msgs |-> gm]
       ELSE [live |-> FALSE, msgs |-> SubSeq(gm, afterIndex, Len(gm))]

\* live: the value returned is the array of the cache itself, not a copy
getUnreadMessages(w, groupId, afterMessageId) ==
    LET gm == groupMessages(w, groupId)
        afterIndex == findIndex(gm, afterMessageId)
    IN IF afterMessageId = NULL \/ afterIndex = 0
       THEN [live |-> groupId \in DOMAIN w.messages, msgs |-> gm]
       ELSE [live |-> FALSE, msgs |-> SubSeq(gm, afterIndex + 1, Len(gm))]

\* a variant of markAsRead that keeps a cursor already stored
markAsRead_KeepFirst(w, agentId, groupId, messageId) ==
    [w EXCEPT !.lastReads = @ @@ (<<agentId, groupId>> :> messageId)]

markAsRead(w, agentId, groupId, messageId) ==
    [w EXCEPT !.lastReads = (<<agentId, groupId>> :> messageId) @@ @]

getLastReadMessageId(w, agentId, groupId) ==
    IF <<agentId, groupId>> \in DOMAIN w.lastReads
    THEN w.lastReads[<<agentId, groupId>>]
    ELSE NULL

-----------------------------------------------------------------------------
(* Agent Runner: lib/virtual-company-runtime.js, class AgentRunner *)

\* constructor; pc is the await the runner's task is suspended at
AgentRunner(agentId, parentId, workspaceId) ==
    [agent |-> agentId, parentId |-> parentId, workspaceId |-> workspaceId,
     isRunning |-> FALSE,
     wakeResolve |-> FALSE,     \* this.wakeResolve is not null
     resolved |-> FALSE,        \* this.wakePromise has been resolved
     pc |-> "created",
     groups |-> <<>>,           \* the groups of the for loop still to visit
     unreadLive |-> FALSE,      \* `unread` is the cache's own array
     unreadLast |-> NULL,       \* id of the last element of a copied `unread`
     newMessages |-> <<>>,      \* ids of newMessages
     round |-> 0,
     toolCalls |-> <<>>,        \* response.toolCalls still to execute
     llmCalls |-> 0,            \* history: callLLM invocations of this drain
     threw |-> FALSE]           \* history: the last cycle ended in the catch

\* the awaits inside a busy cycle: "llm" and "bash" end when the Gateway or the
\* subprocess answers; "tools" and "afterRespond" are awaits of a promise that
\* is already settled, which resume in the same turn of the event loop
Busy == {"llm", "tools", "bash", "afterRespond"}

clearLocals(rec) ==
    [rec EXCEPT !.groups = <<>>, !.unreadLive = FALSE, !.unreadLast = NULL,
                !.newMessages = <<>>, !.round = 0, !.toolCalls = <<>>,
                !.llmCalls = 0]

waitForWakeUp(w, r) ==
    updateAgentStatus([w EXCEPT !.runners[r].wakeResolve = TRUE,
                                !.runners[r].resolved = FALSE,
                                !.runners[r].pc = "waiting"],
                      w.runners[r].agent, "idle")

\* the test of `while (this.isRunning)` and what follows it
runLoop(w, r) ==
    IF w.runners[r].isRunning
    THEN waitForWakeUp(w, r)
    ELSE [w EXCEPT !.runners[r].pc = "done"]

start(w, r) ==
    runLoop(updateAgentStatus([w EXCEPT !.runners[r].isRunning = TRUE],
                              w.runners[r].agent, "idle"), r)

stop(w, r) ==
    updateAgentStatus([w EXCEPT !.runners[r].isRunning = FALSE,
                                !.runners[r].resolved = @ \/ w.runners[r].wakeResolve],
                      w.runners[r].agent, "idle")

wake(w, r) ==
    IF w.runners[r].wakeResolve
    THEN [w EXCEPT !.runners[r].resolved = TRUE]
    ELSE w

\* storage.updateAgentLLMHistory, then the return of respondToMessages
finishRespond(w, r) ==
    [w EXCEPT !.runners[r].pc = "afterRespond"]

\* a variant of loopRound that lets one more round through
loopRound_OneMore(w, r) ==
    IF w.runners[r].round <= maxToolRounds
    THEN [w EXCEPT !.runners[r].round = @ + 1,
                   !.runners[r].llmCalls = @ + 1,
                   !.runners[r].pc = "llm"]
    ELSE finishRespond(w, r)

\* `while (round < this.maxToolRounds) { round++; await callLLM(...)`
loopRound(w, r) ==
    IF w.runners[r].round < maxToolRounds
    THEN [w EXCEPT !.runners[r].round = @ + 1,
                   !.runners[r].llmCalls = @ + 1,
                   !.runners[r].pc = "llm"]
    ELSE finishRespond(w, r)

respondToMessages(w, r) ==
    loopRound([w EXCEPT !.runners[r].round = 0,
                        !.runners[r].llmCalls = 0,
                        !.runners[r].toolCalls = <<>>], r)

\* a variant of catchError in which the exception ends the loop
catchError_Rethrow(w, r) ==
    updateAgentStatus(
        [w EXCEPT !.runners[r] = [clearLocals(@) EXCEPT !.threw = TRUE,
                                                        !.pc = "done"]],
        w.runners[r].agent, "error")

\* a variant of catchError that marks the failed batch as read
catchError_MarkRead(w, r) ==
    LET me == w.runners[r]
        w1 == markAsRead(w, me.agent, Head(me.groups),
                             me.newMessages[Len(me.newMessages)])
    IN runLoop(updateAgentStatus(
                   [w1 EXCEPT !.runners[r] = [clearLocals(@) EXCEPT !.threw = TRUE]],
                   me.agent, "error"), r)

\* the catch of start(), then the loop
catchError(w, r) ==
    runLoop(updateAgentStatus(
                [w EXCEPT !.runners[r] = [clearLocals(@) EXCEPT !.threw = TRUE]],
                w.runners[r].agent, "error"), r)

\* the end of processUnreadMessages and the return into start()
endCycle(w, r) ==
    runLoop(updateAgentStatus(
                [w EXCEPT !.runners[r] = [clearLocals(@) EXCEPT !.threw = FALSE]],
                w.runners[r].agent, "idle"), r)

\* the for loop of processUnreadMessages, from the head of me.groups, up to
\* the first await
RECURSIVE scanGroups(_, _)
scanGroups(w, r) ==
    LET me == w.runners[r]
    IN IF me.groups = <<>> THEN endCycle(w, r)
       ELSE LET g == Head(me.groups)
                lastReadId == getLastReadMessageId(w, me.agent, g)
                unread == getUnreadMessages(w, g, lastReadId)
                newMessages == filterNotSender(unread.msgs, me.agent)
            IN IF Len(newMessages) > 0
               THEN respondToMessages(
                        [w EXCEPT !.runners[r].unreadLive = unread.live,
                                  !.runners[r].unreadLast =
                                      unread.msgs[Len(unread.msgs)].id,
                                  !.runners[r].newMessages = ids(newMessages),
                                  !.lostWake[me.agent] = @ \ Range(ids(newMessages))],
                        r)
               ELSE scanGroups([w EXCEPT !.runners[r].groups = Tail(@)], r)

processUnreadMessages(w, r) ==
    LET a == w.runners[r].agent
    IN scanGroups([updateAgentStatus(w, a, "busy")
                      EXCEPT !.runners[r].groups = listGroupsByAgent(w, a)], r)

\* a variant of resume without `if (!this.isRunning) break`
resume_NoBreak(w, r) ==
    processUnreadMessages([w EXCEPT !.runners[r].wakeResolve = FALSE], r)

\* after `await this.waitForWakeUp()`
resume(w, r) ==
    LET w1 == [w EXCEPT !.runners[r].wakeResolve = FALSE]
    IN IF ~w1.runners[r].isRunning
       THEN [w1 EXCEPT !.runners[r].pc = "done"]
       ELSE processUnreadMessages(w1, r)

\* after `await this.respondToMessages(group, newMessages)`: markAsRead, then
\* the rest of the for loop
afterRespond(w, r) ==
    LET me == w.runners[r]
        g == Head(me.groups)
        gm == groupMessages(w, g)
        lastMsg == IF me.unreadLive THEN gm[Len(gm)].id ELSE me.unreadLast
        w1 == IF lastMsg # NULL THEN markAsRead(w, me.agent, g, lastMsg) ELSE w
    IN scanGroups([w1 EXCEPT !.runners[r].groups = Tail(@),
                             !.runners[r].unreadLive = FALSE,
                             !.runners[r].unreadLast = NULL,
                             !.runners[r].newMessages = <<>>], r)

-----------------------------------------------------------------------------
(* The registry: startAgent, stopAgent, wakeAgent *)

startAgent(w, agentId, workspaceId) ==
    IF agentId \notin DOMAIN w.agents \/ agentId \in DOMAIN w.activeRunners
    THEN w
    ELSE LET r == Len(w.runners) + 1
             runner == AgentRunner(agentId, w.agents[agentId].parentId, workspaceId)
         IN start([w EXCEPT !.runners = Append(@, runner),
                            !.activeRunners = (agentId :> r) @@ @], r)

stopAgent(w, agentId) ==
    IF agentId \notin DOMAIN w.activeRunners THEN w
    ELSE LET w1 == stop(w, w.activeRunners[agentId])
         IN [w1 EXCEPT !.activeRunners =
                 [a \in DOMAIN @ \ {agentId} |-> @[a]],
                       !.lostWake[agentId] = {}]

\* the other-sender messages of the agent's groups that no drain has taken:
\* unread by the cursor and not in the batch being handled
pendingFor(w, agentId, r) ==
    LET gs == listGroupsByAgent(w, agentId)
        unreadOf(g) == filterNotSender(
            getUnreadMessages(w, g, getLastReadMessageId(w, agentId, g)).msgs,
            agentId)
    IN UNION {Range(ids(unreadOf(gs[i]))) : i \in 1..Len(gs)}
         \ Range(w.runners[r].newMessages)

wakeAgent(w, agentId) ==
    IF agentId \notin DOMAIN w.activeRunners THEN w
    ELSE LET r == w.activeRunners[agentId]
             w1 == wake(w, r)
         IN IF w.runners[r].pc \in Busy
            THEN [w1 EXCEPT !.lostWake[agentId] = @ \cup pendingFor(w, agentId, r)]
            ELSE w1

RECURSIVE wakeOthers(_, _, _)
wakeOthers(w, memberIds, self) ==
    IF memberIds = <<>> THEN w
    ELSE wakeOthers(IF Head(memberIds) # self
                    THEN wakeAgent(w, Head(memberIds)) ELSE w,
                    Tail(memberIds), self)

-----------------------------------------------------------------------------
(* Tool Executor: AgentRunner.executeTool and the tool* methods *)

ToolCall(name, to, groupId, memberIds) ==
    [name |-> name, to |-> to, groupId |-> groupId, memberIds |-> memberIds]

toolCreate_NoStart(w, r) ==
    LET me == w.runners[r]
        newAgent == Sub
        w1 == createAgent(w, newAgent, me.workspaceId, me.agent)
    IN getOrCreateP2P(w1, me.workspaceId, me.agent, newAgent).w

toolCreate(w, r) ==
    LET me == w.runners[r]
        newAgent == Sub
        w1 == createAgent(w, newAgent, me.workspaceId, me.agent)
        p2p == getOrCreateP2P(w1, me.workspaceId, me.agent, newAgent)
    IN startAgent(p2p.w, newAgent, me.workspaceId)

toolSend(w, r, to) ==
    LET me == w.runners[r]
        p2p == getOrCreateP2P(w, me.workspaceId, me.agent, to)
        sent == sendMessage(p2p.w, p2p.ret, me.agent, "text")
    IN wakeAgent(sent.w, to)

toolSendGroupMessage_NoWake(w, r, groupId) ==
    LET me == w.runners[r]
        group == getGroup(w, groupId)
    IN IF group = NULL THEN w
       ELSE sendMessage(w, groupId, me.agent, "text").w

toolSendGroupMessage(w, r, groupId) ==
    LET me == w.runners[r]
        group == getGroup(w, groupId)
    IN IF group = NULL THEN w
       ELSE wakeOthers(sendMessage(w, groupId, me.agent, "text").w,
                       w.groups[group].memberIds, me.agent)

toolCreateGroup(w, r, memberIds) ==
    LET me == w.runners[r]
        allMembers == uniq(<<me.agent>> \o memberIds)
    IN createGroup(w, me.workspaceId, allMembers).w

toolReportDone_NoWake(w, r) ==
    LET me == w.runners[r]
    IN IF me.parentId = NoAgent THEN w
       ELSE LET parentP2P == getOrCreateP2P(w, me.workspaceId, me.agent, me.parentId)
            IN sendMessage(parentP2P.w, parentP2P.ret, me.agent, "system").w

toolReportDone(w, r) ==
    LET me == w.runners[r]
    IN IF me.parentId = NoAgent THEN w
       ELSE LET parentP2P == getOrCreateP2P(w, me.workspaceId, me.agent, me.parentId)
                sent == sendMessage(parentP2P.w, parentP2P.ret, me.agent, "system")
            IN wakeAgent(sent.w, me.parentId)

executeTool(w, r, toolCall) ==
    CASE toolCall.name = "create" -> toolCreate(w, r)
      [] toolCall.name = "send" -> toolSend(w, r, toolCall.to)
      [] toolCall.name = "send_group_message" ->
             toolSendGroupMessage(w, r, toolCall.groupId)
      [] toolCall.name = "create_group" -> toolCreateGroup(w, r, toolCall.memberIds)
      [] toolCall.name = "report_done" -> toolReportDone(w, r)
      [] OTHER -> w   \* self, list_agents, list_groups, get_group_messages,
                      \* bash, and the unknown-tool default: no Store effect

\* `await this.executeTool(toolCall)`: the tool runs up to its first await
awaitTool(w, r, toolCall) ==
    executeTool([w EXCEPT !.runners[r].pc =
                     IF toolCall.name = "bash" THEN "bash" ELSE "tools"],
                r, toolCall)

\* the continuation of `await callLLM(...)` on a response
onResponse(w, r, response) ==
    LET me == w.runners[r]
        w1 == IF response.content
              THEN sendMessage(w, Head(me.groups), me.agent, "text").w
              ELSE w
    IN IF Len(response.toolCalls) > 0
       THEN awaitTool([w1 EXCEPT !.runners[r].toolCalls = Tail(response.toolCalls)],
                      r, Head(response.toolCalls))
       ELSE finishRespond(w1, r)

\* a variant of onToolResult that leaves the loop after the tool results
onToolResult_Stop(w, r) ==
    LET me == w.runners[r]
    IN IF me.toolCalls # <<>>
       THEN awaitTool([w EXCEPT !.runners[r].toolCalls = Tail(@)],
                      r, Head(me.toolCalls))
       ELSE finishRespond(w, r)

\* the continuation of `await this.executeTool(toolCall)`
onToolResult(w, r) ==
    LET me == w.runners[r]
    IN IF me.toolCalls # <<>>
       THEN awaitTool([w EXCEPT !.runners[r].toolCalls = Tail(@)],
                      r, Head(me.toolCalls))
       ELSE loopRound(w, r)

\* runtime.sendUserMessage
sendUserMessage(w, workspaceId, targetAgentId, humanAgentId) ==
    LET p2p == getOrCreateP2P(w, workspaceId, humanAgentId, targetAgentId)
        sent == sendMessage(p2p.w, p2p.ret, humanAgentId, "text")
    IN wakeAgent(sent.w, targetAgentId)

\* the body of the loop of chatInGroup: send to the group, wake its members
chatInGroup(w, humanAgentId, groupId) ==
    LET group == getGroup(w, groupId)
    IN wakeOthers(sendMessage(w, groupId, humanAgentId, "text").w,
                  w.groups[group].memberIds, humanAgentId)

-----------------------------------------------------------------------------
(* The state after launchCompany: Human, CEO and Dev; the all-hands group  *)
(* and the Human-CEO peer group; a started runner for CEO and for Dev.     *)

EmptyWorld ==
    [workspaces |-> {}, agents |-> <<>>, groups |-> <<>>, messages |-> <<>>, lastReads |-> <<>>,
     nextGroupId |-> 1, nextMsgId |-> 1, activeRunners |-> <<>>,
     runners |-> <<>>, lostWake |-> [a \in AgentPool |-> {}]]

\* launchCompany up to the loop that starts the agents
createCompany ==
    LET w1 == createAgent(createWorkspace(EmptyWorld, W1), Human, W1, NoAgent)
        w2 == createAgent(w1, CEO, W1, Human)
        w3 == createAgent(w2, Dev, W1, CEO)
        w4 == createGroup(w3, W1, <<Human, CEO, Dev>>).w
    IN getOrCreateP2P(w4, W1, Human, CEO).w

\* launchCompany with its loop: a started runner for CEO and for Dev
launchCompany ==
    startAgent(startAgent(createCompany, CEO, W1), Dev, W1)

AllHands == 1       \* the id createGroup gave the all-hands group

NoCall == [op |-> "none"]

\* no timer set, and a durable storage nobody looks at
NoFlush == [flushTimer |-> NULL, timers |-> {}, nextTimer |-> 1, durable |-> <<>>]

\* no conversation loop entered, `llmHistory: []` as createAgent stores it
NoTranscript ==
    [messages |-> <<>>, toolCalls |-> <<>>, toolResults |-> <<>>,
     llmHistory |-> <<>>, responses |-> 0]

\* no driver has called anything, and the model router is as loaded
NoOtherCalls ==
    /\ marked = {}
    /\ lastCall = NoCall
    /\ spawned = <<>>
    /\ protocolCache = <<>>
    /\ calls = <<>>
    /\ flush = NoFlush
    /\ transcript = NoTranscript

Is(w) ==
    /\ workspaces = w.workspaces
    /\ agents = w.agents
    /\ groups = w.groups
    /\ messages = w.messages
    /\ lastReads = w.lastReads
    /\ nextGroupId = w.nextGroupId
    /\ nextMsgId = w.nextMsgId
    /\ activeRunners = w.activeRunners
    /\ runners = w.runners
    /\ lostWake = w.lostWake

Init ==
    /\ Is(createCompany)
    /\ budget = MaxMsgs
    /\ p2pCalls = <<>>
    /\ sentLog = <<>>
    /\ NoOtherCalls

InitTools ==
    /\ Is(createCompany)
    /\ budget = MaxToolMsgs
    /\ p2pCalls = <<>>
    /\ sentLog = <<>>
    /\ NoOtherCalls

InitLaunched ==
    /\ Is(launchCompany)
    /\ budget = MaxE2EMsgs
    /\ p2pCalls = <<>>
    /\ sentLog = <<>>
    /\ NoOtherCalls

-----------------------------------------------------------------------------
(* Actions of the runtime *)

WithinBounds(w) ==
    /\ w.nextMsgId - 1 <= budget
    /\ w.nextGroupId - 1 <= MaxGroups
    /\ Len(w.runners) <= MaxRunners

Do(w) ==
    /\ WithinBounds(w)
    /\ Become(w)
    /\ UNCHANGED <<budget, p2pCalls, sentLog, rest>>

\* what a Gateway response may ask for
\* the tools without an effect on the Store or the registry (list_agents,
\* list_groups and get_group_messages read as self does)
NoArgTools == {"self", "bash", "unknown"}

ToolCalls(w, r) ==
    {ToolCall(n, NoAgent, NULL, <<>>) : n \in NoArgTools \cup {"report_done"}}
    \cup {ToolCall("create", NoAgent, NULL, <<>>) : a \in {Sub} \ DOMAIN w.agents}
    \cup {ToolCall("send", to, NULL, <<>>) : to \in DOMAIN w.agents}
    \cup {ToolCall("send_group_message", NoAgent, g, <<>>) :
             g \in {w.groups[i].id : i \in 1..Len(w.groups)} \cup {w.nextGroupId}}
    \cup {ToolCall("create_group", NoAgent, NULL, <<m>>) : m \in DOMAIN w.agents}

SeqsUpTo(S, n) == UNION {[1..k -> S] : k \in 0..n}

\* every response: content or none, and up to MaxToolCalls tool calls
Responses(w, r) ==
    {[content |-> c, toolCalls |-> tcs] :
        c \in BOOLEAN, tcs \in SeqsUpTo(ToolCalls(w, r), MaxToolCalls)}

\* the responses without tool calls
TextResponses ==
    {[content |-> c, toolCalls |-> <<>>] : c \in BOOLEAN}

\* Scheduling.  There is no preemption: the continuation of an await on a
\* settled promise runs before the event loop takes the next I/O event.
Pending(r) ==
    \/ runners[r].pc \in {"tools", "afterRespond"}
    \/ runners[r].pc = "waiting" /\ runners[r].resolved

\* no continuation is queued: the event loop may deliver an I/O completion
Drained == \A r \in 1..Len(runners) : ~Pending(r)

\* no runner is in the middle of its turn: the caller of the public API runs
\* (it may call several operations in a row before the woken runners resume)
Quiescent == \A r \in 1..Len(runners) : runners[r].pc \notin {"tools", "afterRespond"}

StartAgent(a) ==
    /\ Quiescent
    /\ a \in DOMAIN agents \ {Human}
    /\ a \notin DOMAIN activeRunners
    /\ Do(startAgent(World, a, agents[a].workspaceId))

StopAgent(a) ==
    /\ Quiescent
    /\ a \in DOMAIN activeRunners
    /\ Do(stopAgent(World, a))

WakeAgent(a) ==
    /\ Quiescent
    /\ a \in DOMAIN activeRunners
    /\ Do(wakeAgent(World, a))

SendUserMessage(a) ==
    /\ Quiescent
    /\ a \in DOMAIN agents \ {Human}
    /\ Do(sendUserMessage(World, W1, a, Human))

ChatInGroup ==
    /\ Quiescent
    /\ Do(chatInGroup(World, Human, AllHands))

Resume(r) ==
    /\ runners[r].pc = "waiting"
    /\ runners[r].resolved
    /\ Do(resume(World, r))

LLMReturn(r, responses) ==
    /\ Drained
    /\ runners[r].pc = "llm"
    /\ \E response \in responses : Do(onResponse(World, r, response))

LLMThrow(r) ==
    /\ Drained
    /\ runners[r].pc = "llm"
    /\ Do(catchError(World, r))

ToolReturn(r) ==
    /\ runners[r].pc = "tools"
    /\ Do(onToolResult(World, r))

BashReturn(r) ==
    /\ Drained
    /\ runners[r].pc = "bash"
    /\ Do(onToolResult(World, r))

AfterRespond(r) ==
    /\ runners[r].pc = "afterRespond"
    /\ Do(afterRespond(World, r))

\* The life cycle of the runners: start, wake, stop, and a Gateway that
\* answers with or without content, or fails
Next ==
    \/ \E a \in AgentPool : StartAgent(a)
    \/ \E a \in AgentPool : StopAgent(a)
    \/ \E a \in AgentPool : WakeAgent(a)
    \/ ChatInGroup
    \/ \E r \in 1..Len(runners) : Resume(r)
    \/ \E r \in 1..Len(runners) : LLMReturn(r, TextResponses)
    \/ \E r \in 1..Len(runners) : LLMThrow(r)
    \/ \E r \in 1..Len(runners) : AfterRespond(r)

Spec == Init /\ [][Next]_vars

\* The tools: runners, the human chat, and a Gateway that may ask for any
\* tool in every response
NextTools ==
    \/ \E a \in AgentPool : StartAgent(a)
    \/ \E a \in AgentPool : SendUserMessage(a)
    \/ \E r \in 1..Len(runners) : Resume(r)
    \/ \E r \in 1..Len(runners) : LLMReturn(r, Responses(World, r))
    \/ \E r \in 1..Len(runners) : ToolReturn(r)
    \/ \E r \in 1..Len(runners) : BashReturn(r)
    \/ \E r \in 1..Len(runners) : AfterRespond(r)

SpecTools == InitTools /\ [][NextTools]_vars

\* The end-to-end scenario: the launched company, the human's messages to the
\* all-hands group, and a stubbed Gateway that returns content and no tool call
StubResponses == {[content |-> TRUE, toolCalls |-> <<>>]}

NextE2E ==
    \/ ChatInGroup
    \/ \E r \in 1..Len(runners) : Resume(r)
    \/ \E r \in 1..Len(runners) : LLMReturn(r, StubResponses)
    \/ \E r \in 1..Len(runners) : AfterRespond(r)

SpecE2E == InitLaunched /\ [][NextE2E]_vars

-----------------------------------------------------------------------------
(* The Store driven directly: lib/virtual-company-storage.js *)

W2 == "w2"

\* n messages of the human, as a previous session left them on disk
persisted(n) ==
    [i \in 1..n |-> [id |-> i, senderId |-> Human, type |-> "text"]]

\* the cache as loaded at start-up: the company, and the all-hands group with
\* n persisted messages
loadStore(n) ==
    [createCompany EXCEPT !.messages = IF n = 0 THEN <<>>
                                       ELSE (AllHands :> persisted(n)),
                          !.nextMsgId = n + 1]

\* the lengths of the persisted list: empty, and one short of the limit
PersistedLens == {0, MAX_MESSAGES_PER_GROUP - 1}

InitMessages ==
    \E n \in PersistedLens :
        /\ Is(loadStore(n))
        /\ budget = n + MaxStoreMsgs
        /\ p2pCalls = <<>>
        /\ sentLog = IF n = 0 THEN <<>> ELSE (AllHands :> persisted(n))
        /\ NoOtherCalls

SendMessage(groupId, senderId) ==
    LET res == sendMessage(World, groupId, senderId, "text")
        msg == [id |-> res.ret, senderId |-> senderId, type |-> "text"]
        sent == IF groupId \in DOMAIN sentLog THEN sentLog[groupId] ELSE <<>>
    IN /\ WithinBounds(res.w)
       /\ Become(res.w)
       /\ sentLog' = (groupId :> Append(sent, msg)) @@ sentLog
       /\ UNCHANGED <<budget, p2pCalls, rest>>

\* senders of several runners append to two groups, in any order
NextMessages ==
    \E i \in 1..Len(groups), a \in LaunchAgents : SendMessage(groups[i].id, a)

SpecMessages == InitMessages /\ [][NextMessages]_vars

\* The read cursors: getUnreadMessages, markAsRead and getLastReadMessageId
\* called on the Store between the sends
InitCursor ==
    \E n \in PersistedLens :
        /\ Is(loadStore(n))
        /\ budget = n + MaxCursorMsgs
        /\ p2pCalls = <<>>
        /\ sentLog = <<>>
        /\ NoOtherCalls

\* the ids a caller may hold: null, the oldest and the newest ids given out,
\* and one not given out yet
Cursors ==
    {NULL} \cup {i \in 1..nextMsgId : i <= 2 \/ i >= nextMsgId - 2}

HumanSends(groupId) ==
    /\ WithinBounds(sendMessage(World, groupId, Human, "text").w)
    /\ Become(sendMessage(World, groupId, Human, "text").w)
    /\ lastCall' = NoCall
    /\ UNCHANGED <<budget, p2pCalls, sentLog, marked, spawned, protocolCache,
                   calls, flush, transcript>>

GetUnreadMessages(groupId, afterMessageId) ==
    /\ lastCall' = [op |-> "getUnreadMessages", groupId |-> groupId,
                    afterMessageId |-> afterMessageId,
                    ret |-> getUnreadMessages(World, groupId,
                                              afterMessageId).msgs]
    /\ Become(World)
    /\ UNCHANGED <<budget, p2pCalls, sentLog, marked, spawned, protocolCache,
                   calls, flush, transcript>>

\* markAsRead, then getLastReadMessageId of the same pair
MarkAsRead(agentId, groupId, messageId) ==
    LET w == markAsRead(World, agentId, groupId, messageId)
    IN /\ Become(w)
       /\ marked' = marked \cup {<<agentId, groupId>>}
       /\ lastCall' = [op |-> "markAsRead", agentId |-> agentId,
                       groupId |-> groupId, messageId |-> messageId,
                       ret |-> getLastReadMessageId(w, agentId, groupId)]
       /\ UNCHANGED <<budget, p2pCalls, sentLog, spawned, protocolCache, calls, flush, transcript>>

GetLastReadMessageId(agentId, groupId) ==
    /\ lastCall' = [op |-> "getLastReadMessageId", agentId |-> agentId,
                    groupId |-> groupId,
                    ret |-> getLastReadMessageId(World, agentId, groupId)]
    /\ Become(World)
    /\ UNCHANGED <<budget, p2pCalls, sentLog, marked, spawned, protocolCache,
                   calls, flush, transcript>>

NextCursor ==
    \/ \E i \in 1..Len(groups) : HumanSends(groups[i].id)
    \/ \E i \in 1..Len(groups), c \in Cursors :
          GetUnreadMessages(groups[i].id, c)
    \/ \E i \in 1..Len(groups), m \in Cursors \ {NULL} :
          MarkAsRead(CEO, groups[i].id, m)
    \/ \E a \in {CEO, Dev}, i \in 1..Len(groups) :
          GetLastReadMessageId(a, groups[i].id)

SpecCursor == InitCursor /\ [][NextCursor]_vars

Other == "oth"      \* an agent of the second workspace

\* the company of W1, and a second workspace with one agent
twoWorkspaces ==
    createAgent(createWorkspace(createCompany, W2), Other, W2, NoAgent)

InitGroups ==
    /\ Is(twoWorkspaces)
    /\ budget = 0
    /\ p2pCalls = <<>>
    /\ sentLog = <<>>
    /\ NoOtherCalls

\* p2pCalls holds the last two calls of getOrCreateP2P made in a row
GetOrCreateP2P(workspaceId, agentId1, agentId2) ==
    LET res == getOrCreateP2P(World, workspaceId, agentId1, agentId2)
        call == [workspaceId |-> workspaceId, agentId1 |-> agentId1,
                 agentId2 |-> agentId2, ret |-> res.ret,
                 created |-> Len(res.w.groups) - Len(groups)]
    IN /\ WithinBounds(res.w)
       /\ Become(res.w)
       /\ p2pCalls' = IF Len(p2pCalls) = 2 THEN <<p2pCalls[2], call>>
                      ELSE Append(p2pCalls, call)
       /\ lastCall' = NoCall
       /\ UNCHANGED <<budget, sentLog, marked, spawned, protocolCache, calls, flush, transcript>>

CreateGroup(workspaceId, memberIds) ==
    /\ WithinBounds(createGroup(World, workspaceId, memberIds).w)
    /\ Become(createGroup(World, workspaceId, memberIds).w)
    /\ p2pCalls' = <<>>
    /\ lastCall' = NoCall
    /\ UNCHANGED <<budget, sentLog, marked, spawned, protocolCache, calls, flush, transcript>>

DeleteWorkspace(id) ==
    /\ Become(deleteWorkspace(World, id))
    /\ p2pCalls' = <<>>
    /\ lastCall' = [op |-> "deleteWorkspace", id |-> id]
    /\ UNCHANGED <<budget, sentLog, marked, spawned, protocolCache, calls, flush, transcript>>

NextGroups ==
    \/ \E ws \in {W1, W2}, a, b \in LaunchAgents : GetOrCreateP2P(ws, a, b)
    \/ \E b \in {Human, Dev} : CreateGroup(W1, <<CEO, b>>)

SpecGroups == InitGroups /\ [][NextGroups]_vars

\* Workspaces deleted between the creations of groups in both workspaces
NextDelete ==
    \/ \E ws \in {W1, W2}, b \in {CEO, Other} : GetOrCreateP2P(ws, Human, b)
    \/ \E ws \in {W1, W2} : CreateGroup(ws, <<Other, CEO, Dev>>)
    \/ \E ws \in {W1, W2} : DeleteWorkspace(ws)

SpecDelete == InitGroups /\ [][NextDelete]_vars

-----------------------------------------------------------------------------
(* The model router: lib/model-router.js, callLLM *)

ANTHROPIC == "anthropic"
OPENAI == "openai"
GLM == "glm"        \* stands for the backends outside the fallback
                    \* (claude-code, openrouter, glm)
NoUrl == "nourl"    \* the active profile has no url
U1 == "u1"

\* the errors executeCall may throw: an HTTP failure carries error.response
\* and the message "Request failed with status code <n>"; a timeout or a
\* missing key carries neither
Errors == {"404", "401", "timeout"}

isNetworkError(error) == error \in {"404", "401"}

includes401(error) == error = "401"

\* steps 1 and 2 of callLLM: the backend of the first attempt
targetBackend(cache, profileUrl, modelBackend) ==
    IF /\ profileUrl # NoUrl
       /\ profileUrl \in DOMAIN cache
       /\ cache[profileUrl] # modelBackend
       /\ cache[profileUrl] \in {OPENAI, ANTHROPIC}
    THEN cache[profileUrl]
    ELSE modelBackend

set(cache, key, value) == (key :> value) @@ cache

\* the call, suspended in `await executeCall(targetBackend)`
callLLM(cache, cs, profileUrl, modelBackend) ==
    LET target == targetBackend(cache, profileUrl, modelBackend)
    IN Append(cs, [profileUrl |-> profileUrl,
                   modelBackend |-> modelBackend,
                   targetBackend |-> target,
                   pc |-> "first",
                   attempts |-> <<target>>,
                   errors |-> <<>>,
                   cached |-> IF profileUrl \in DOMAIN cache
                              THEN cache[profileUrl] ELSE "none",
                   after |-> {i \in 1..Len(cs) :
                                 cs[i].pc \in {"returned", "thrown"}}])

\* the Smart Fallback: the backend of the retry, or none
retryBackend(target, error) ==
    IF target = ANTHROPIC /\ ~includes401(error) THEN OPENAI
    ELSE IF target = OPENAI THEN ANTHROPIC
    ELSE "none"

\* a variant of onSuccess that leaves the cache alone after a retry
onSuccess_NoCache(cache, cs, i) ==
    [cache |-> IF cs[i].pc = "first" /\ cs[i].profileUrl # NoUrl
               THEN set(cache, cs[i].profileUrl, cs[i].targetBackend)
               ELSE cache,
     calls |-> [cs EXCEPT ![i].pc = "returned"]]

\* executeCall resolved: the first attempt or the retry
onSuccess(cache, cs, i) ==
    LET c == cs[i]
        used == c.attempts[Len(c.attempts)]
    IN [cache |-> IF c.pc = "retry" \/ c.profileUrl # NoUrl
                  THEN set(cache, c.profileUrl, used)
                  ELSE cache,
        calls |-> [cs EXCEPT ![i].pc = "returned"]]

\* a variant of onError that retries whatever the error is
onError_AnyError(cache, cs, i, error) ==
    LET c == [cs[i] EXCEPT !.errors = Append(@, error)]
        retry == retryBackend(c.targetBackend, error)
    IN IF c.pc = "first" /\ c.profileUrl # NoUrl /\ retry # "none"
       THEN [cs EXCEPT ![i] = [c EXCEPT !.pc = "retry",
                                        !.attempts = Append(@, retry)]]
       ELSE [cs EXCEPT ![i] = [c EXCEPT !.pc = "thrown"]]

\* executeCall rejected: the catch of the first attempt or of the retry
onError(cache, cs, i, error) ==
    LET c == [cs[i] EXCEPT !.errors = Append(@, error)]
        canRetry == c.profileUrl # NoUrl /\ isNetworkError(error)
        retry == retryBackend(c.targetBackend, error)
    IN IF c.pc = "first" /\ canRetry /\ retry # "none"
       THEN [cs EXCEPT ![i] = [c EXCEPT !.pc = "retry",
                                        !.attempts = Append(@, retry)]]
       ELSE [cs EXCEPT ![i] = [c EXCEPT !.pc = "thrown"]]

InitRouter ==
    /\ Is(EmptyWorld)
    /\ budget = 0
    /\ p2pCalls = <<>>
    /\ sentLog = <<>>
    /\ NoOtherCalls

storeVars == <<workspaces, agents, groups, messages, lastReads, nextGroupId,
               nextMsgId, activeRunners, runners, lostWake, budget, p2pCalls,
               sentLog, marked, lastCall, spawned, flush, transcript>>

CallLLM(profileUrl, modelBackend) ==
    /\ Len(calls) < MaxCalls
    /\ calls' = callLLM(protocolCache, calls, profileUrl, modelBackend)
    /\ UNCHANGED <<protocolCache, storeVars>>

CallSucceeds(i) ==
    /\ calls[i].pc \in {"first", "retry"}
    /\ protocolCache' = onSuccess(protocolCache, calls, i).cache
    /\ calls' = onSuccess(protocolCache, calls, i).calls
    /\ UNCHANGED storeVars

CallFails(i, error) ==
    /\ calls[i].pc \in {"first", "retry"}
    /\ calls' = onError(protocolCache, calls, i, error)
    /\ UNCHANGED <<protocolCache, storeVars>>

NextRouter ==
    \/ \E u \in {U1, NoUrl}, b \in {ANTHROPIC, OPENAI, GLM} : CallLLM(u, b)
    \/ \E i \in 1..Len(calls) : CallSucceeds(i)
    \/ \E i \in 1..Len(calls), e \in Errors : CallFails(i, e)

SpecRouter == InitRouter /\ [][NextRouter]_vars

-----------------------------------------------------------------------------
(* executeTool as the Gateway can call it: any tool name, arguments that may
   be missing, ids that may not exist *)

Ghost == "ghost"                \* an agent id that no agent has

Store == <<workspaces, agents, groups, messages, lastReads, nextGroupId,
           nextMsgId>>

\* a tool call whose argument object lacks the arguments named in `missing`
Lacking(toolCall, missing) ==
    [name |-> toolCall.name, to |-> toolCall.to, groupId |-> toolCall.groupId,
     memberIds |-> toolCall.memberIds, missing |-> missing]

\* the p2pGroupId of the object toolCreate returns
p2pGroupId(w, r) ==
    LET me == w.runners[r]
    IN getOrCreateP2P(createAgent(w, Sub, me.workspaceId, me.agent),
                      me.workspaceId, me.agent, Sub).ret

\* the notifications the tool methods hand to eventBus.emit, in call order
emitted(w, r, toolCall) ==
    LET me == w.runners[r]
        Event(type, groupId) == [type |-> type, groupId |-> groupId, agentId |-> me.agent]
    IN CASE toolCall.name = "create" -> <<Event("agent.created", NULL)>>
         [] toolCall.name = "send" ->
                <<Event("message.created",
                        getOrCreateP2P(w, me.workspaceId, me.agent, toolCall.to).ret)>>
         [] toolCall.name = "send_group_message" ->
                IF getGroup(w, toolCall.groupId) = NULL THEN <<>>
                ELSE <<Event("message.created", toolCall.groupId)>>
         [] toolCall.name = "create_group" -> <<Event("group.created", w.nextGroupId)>>
         [] toolCall.name = "report_done" -> <<Event("agent.done", NULL)>>
         [] OTHER -> <<>>

\* how the promise of executeTool settles, and the world it leaves:
\* `role.toLowerCase()` of createAgent, `...memberIds` of toolCreateGroup and
\* `command.toLowerCase()` of checkCommandSafety throw a TypeError on
\* undefined, before any effect;
\* toolSendGroupMessage and the default case return an error payload
executeToolOutcome(w, r, toolCall) ==
    LET throws == \/ toolCall.name = "create" /\ "role" \in toolCall.missing
                  \/ toolCall.name = "create_group" /\ "memberIds" \in toolCall.missing
                  \/ toolCall.name = "bash" /\ "command" \in toolCall.missing
        error == \/ toolCall.name = "unknown"
                 \/ toolCall.name = "send_group_message"
                      /\ getGroup(w, toolCall.groupId) = NULL
    IN [w |-> IF throws THEN w ELSE executeTool(w, r, toolCall),
        outcome |-> IF throws THEN "throws"
                    ELSE IF error THEN "error" ELSE "value",
        p2pGroupId |-> IF toolCall.name = "create" /\ ~throws
                       THEN p2pGroupId(w, r) ELSE NULL,
        emitted |-> IF throws THEN <<>> ELSE emitted(w, r, toolCall)]

InitExec ==
    /\ Is(launchCompany)
    /\ budget = MaxExecMsgs
    /\ p2pCalls = <<>>
    /\ sentLog = <<>>
    /\ NoOtherCalls

\* the tool calls a response may carry: every tool, targets that exist or
\* not, and the argument objects without role, memberIds or command
ExecCalls(w, r) ==
    {Lacking(tc, {}) : tc \in
        {ToolCall(n, NoAgent, NULL, <<>>) :
            n \in {"self", "list_agents", "unknown", "report_done"}}
        \cup {ToolCall("create", NoAgent, NULL, <<>>) :
                 a \in {Sub} \ (DOMAIN w.agents \cup DOMAIN w.activeRunners)}
        \cup {ToolCall("send", to, NULL, <<>>) : to \in DOMAIN w.agents \cup {Ghost}}
        \cup {ToolCall("send_group_message", NoAgent, g, <<>>) :
                 g \in {w.groups[i].id : i \in 1..Len(w.groups)} \cup {w.nextGroupId}}
        \cup {ToolCall("create_group", NoAgent, NULL, <<m>>) :
                 m \in DOMAIN w.agents \cup {Ghost}}}
    \cup {Lacking(ToolCall("create", NoAgent, NULL, <<>>), {"role"}),
          Lacking(ToolCall("create_group", NoAgent, NULL, <<>>), {"memberIds"}),
          Lacking(ToolCall("bash", NoAgent, NULL, <<>>), {"command"})}

ExecuteTool(r, toolCall) ==
    LET out == executeToolOutcome(World, r, toolCall)
    IN /\ out.w.nextMsgId - 1 <= budget
       /\ out.w.nextGroupId - 1 <= MaxGroups
       /\ Len(out.w.runners) <= MaxExecRunners
       /\ Become(out.w)
       /\ lastCall' = [op |-> "executeTool", name |-> toolCall.name,
                       missing |-> toolCall.missing, outcome |-> out.outcome,
                       r |-> r, toolCall |-> toolCall,
                       p2pGroupId |-> out.p2pGroupId,
                       emitted |-> out.emitted]
       /\ UNCHANGED <<budget, p2pCalls, sentLog, marked, spawned,
                      protocolCache, calls, flush, transcript>>

\* the tools of the live runners, and the workspace deleted under them:
\* deleteWorkspace stops no runner
NextExec ==
    \/ \E r \in 1..Len(runners) : \E toolCall \in ExecCalls(World, r) :
           ExecuteTool(r, toolCall)
    \/ DeleteWorkspace(W1)

SpecExec == InitExec /\ [][NextExec]_vars

-----------------------------------------------------------------------------
(* The bash tool and its command filter.  A command is the sequence of its
   characters; a RegExp is a tree, matched as RegExp.prototype.test does *)

Upper ==
    <<"A", "B", "C", "D", "E", "F", "G", "H", "I", "J", "K", "L", "M", "N", "O", "P", "Q", "R", "S", "T", "U", "V", "W", "X", "Y", "Z">>
Lower ==
    <<"a", "b", "c", "d", "e", "f", "g", "h", "i", "j", "k", "l", "m", "n", "o", "p", "q", "r", "s", "t", "u", "v", "w", "x", "y", "z">>
Digits ==
    <<"0", "1", "2", "3", "4", "5", "6", "7", "8", "9">>

Whitespace == {" ", "\t", "\n", "\r", "\f"}     \* \s, and what trim() removes
LineTerminators == {"\n", "\r"}                 \* what `.` does not match
WordChars == Range(Upper) \cup Range(Lower) \cup Range(Digits) \cup {"_"}    \* \w

\* String.prototype.toLowerCase
toLowerCase(str) ==
    [i \in DOMAIN str |->
        IF \E k \in DOMAIN Upper : Upper[k] = str[i]
        THEN Lower[CHOOSE k \in DOMAIN Upper : Upper[k] = str[i]]
        ELSE str[i]]

\* String.prototype.trim
trim(str) ==
    LET kept == {i \in DOMAIN str : str[i] \notin Whitespace}
    IN IF kept = {} THEN <<>>
       ELSE SubSeq(str, Min(kept), CHOOSE i \in kept : \A j \in kept : j <= i)

\* the nodes of a RegExp
In(chars) == [t |-> "set", cs |-> chars, rs |-> <<>>]       \* x, [xy], \s
Dot == [t |-> "any", cs |-> {}, rs |-> <<>>]                \* .
WordBoundary == [t |-> "wb", cs |-> {}, rs |-> <<>>]        \* \b
Cat(parts) == [t |-> "cat", cs |-> {}, rs |-> parts]        \* xy
Alt(parts) == [t |-> "alt", cs |-> {}, rs |-> parts]        \* x|y
Opt(re) == [t |-> "opt", cs |-> {}, rs |-> <<re>>]          \* x?
Star(re) == [t |-> "star", cs |-> {}, rs |-> <<re>>]        \* x*
Plus(re) == [t |-> "plus", cs |-> {}, rs |-> <<re>>]        \* x+
Lit(str) == Cat([i \in DOMAIN str |-> In({str[i]})])        \* a literal

isWordAt(str, i) == i \in DOMAIN str /\ str[i] \in WordChars

\* the positions where a match of re that starts at position i of str can end
RECURSIVE Ends(_, _, _)
Ends(re, str, i) ==
    CASE re.t = "set" ->
            IF i \in DOMAIN str /\ str[i] \in re.cs THEN {i + 1} ELSE {}
      [] re.t = "any" ->
            IF i \in DOMAIN str /\ str[i] \notin LineTerminators THEN {i + 1} ELSE {}
      [] re.t = "wb" ->
            IF isWordAt(str, i - 1) # isWordAt(str, i) THEN {i} ELSE {}
      [] re.t = "cat" ->
            IF re.rs = <<>> THEN {i}
            ELSE UNION {Ends(Cat(Tail(re.rs)), str, j) : j \in Ends(Head(re.rs), str, i)}
      [] re.t = "alt" ->
            UNION {Ends(re.rs[k], str, i) : k \in DOMAIN re.rs}
      [] re.t = "opt" ->
            {i} \cup Ends(re.rs[1], str, i)
      [] re.t = "star" ->
            {i} \cup UNION {Ends(re, str, j) : j \in Ends(re.rs[1], str, i) \ {i}}
      [] re.t = "plus" ->
            UNION {Ends(Star(re.rs[1]), str, j) : j \in Ends(re.rs[1], str, i)}

\* RegExp.prototype.test: a match somewhere in str
test(re, str) == \E i \in 1..(Len(str) + 1) : Ends(re, str, i) # {}

DANGEROUS_PATTERNS ==
    <<
      \* /rm\s+(-rf?|--recursive)\s+[\/\\]/
      [pattern |-> Cat(<<Lit(<<"r", "m">>), Plus(In(Whitespace)), Alt(<<Cat(<<Lit(<<"-", "r">>), Opt(Lit(<<"f">>))>>), Lit(<<"-", "-", "r", "e", "c", "u", "r", "s", "i", "v", "e">>)>>), Plus(In(Whitespace)), In({"/", "\\"})>>),
       reason |-> "Recursive delete on root"],
      \* /rm\s+(-rf?|--recursive)\s+~/
      [pattern |-> Cat(<<Lit(<<"r", "m">>), Plus(In(Whitespace)), Alt(<<Cat(<<Lit(<<"-", "r">>), Opt(Lit(<<"f">>))>>), Lit(<<"-", "-", "r", "e", "c", "u", "r", "s", "i", "v", "e">>)>>), Plus(In(Whitespace)), Lit(<<"~">>)>>),
       reason |-> "Recursive delete on home directory"],
      \* /mkfs/
      [pattern |-> Lit(<<"m", "k", "f", "s">>),
       reason |-> "Filesystem formatting"],
      \* /dd\s+if=/
      [pattern |-> Cat(<<Lit(<<"d", "d">>), Plus(In(Whitespace)), Lit(<<"i", "f", "=">>)>>),
       reason |-> "Raw disk write"],
      \* /:(){ :\|:& };:/  (an empty group, then `{` and the rest as literals)
      [pattern |-> Cat(<<Lit(<<":">>), Cat(<<>>), Lit(<<"{", " ", ":", "|", ":", "&", " ", "}", ";", ":">>)>>),
       reason |-> "Fork bomb"],
      \* /shutdown|reboot|poweroff|halt/
      [pattern |-> Alt(<<Lit(<<"s", "h", "u", "t", "d", "o", "w", "n">>), Lit(<<"r", "e", "b", "o", "o", "t">>), Lit(<<"p", "o", "w", "e", "r", "o", "f", "f">>), Lit(<<"h", "a", "l", "t">>)>>),
       reason |-> "System shutdown/reboot"],
      \* /format\s+[a-z]:/
      [pattern |-> Cat(<<Lit(<<"f", "o", "r", "m", "a", "t">>), Plus(In(Whitespace)), In(Range(Lower)), Lit(<<":">>)>>),
       reason |-> "Disk formatting (Windows)"],
      \* /del\s+\/[sf]\s+[a-z]:\\/
      [pattern |-> Cat(<<Lit(<<"d", "e", "l">>), Plus(In(Whitespace)), Lit(<<"/">>), In({"s", "f"}), Plus(In(Whitespace)), In(Range(Lower)), Lit(<<":", "\\">>)>>),
       reason |-> "Recursive delete (Windows)"],
      \* /reg\s+(delete|add)/
      [pattern |-> Cat(<<Lit(<<"r", "e", "g">>), Plus(In(Whitespace)), Alt(<<Lit(<<"d", "e", "l", "e", "t", "e">>), Lit(<<"a", "d", "d">>)>>)>>),
       reason |-> "Registry modification"],
      \* /curl\s+.*\|\s*(bash|sh|python)/
      [pattern |-> Cat(<<Lit(<<"c", "u", "r", "l">>), Plus(In(Whitespace)), Star(Dot), Lit(<<"|">>), Star(In(Whitespace)), Alt(<<Lit(<<"b", "a", "s", "h">>), Lit(<<"s", "h">>), Lit(<<"p", "y", "t", "h", "o", "n">>)>>)>>),
       reason |-> "Remote code execution via pipe"],
      \* /wget\s+.*\|\s*(bash|sh|python)/
      [pattern |-> Cat(<<Lit(<<"w", "g", "e", "t">>), Plus(In(Whitespace)), Star(Dot), Lit(<<"|">>), Star(In(Whitespace)), Alt(<<Lit(<<"b", "a", "s", "h">>), Lit(<<"s", "h">>), Lit(<<"p", "y", "t", "h", "o", "n">>)>>)>>),
       reason |-> "Remote code execution via pipe"],
      \* /chmod\s+777\s+\//
      [pattern |-> Cat(<<Lit(<<"c", "h", "m", "o", "d">>), Plus(In(Whitespace)), Lit(<<"7", "7", "7">>), Plus(In(Whitespace)), Lit(<<"/">>)>>),
       reason |-> "Dangerous permission change on root"],
      \* /chown\s+.*\s+\//
      [pattern |-> Cat(<<Lit(<<"c", "h", "o", "w", "n">>), Plus(In(Whitespace)), Star(Dot), Plus(In(Whitespace)), Lit(<<"/">>)>>),
       reason |-> "Ownership change on root"],
      \* />\s*\/dev\/sd[a-z]/
      [pattern |-> Cat(<<Lit(<<">">>), Star(In(Whitespace)), Lit(<<"/", "d", "e", "v", "/", "s", "d">>), In(Range(Lower))>>),
       reason |-> "Direct disk write"],
      \* /iptables\s+(-F|-X|--flush)/
      [pattern |-> Cat(<<Lit(<<"i", "p", "t", "a", "b", "l", "e", "s">>), Plus(In(Whitespace)), Alt(<<Lit(<<"-", "F">>), Lit(<<"-", "X">>), Lit(<<"-", "-", "f", "l", "u", "s", "h">>)>>)>>),
       reason |-> "Firewall flush"],
      \* /passwd/
      [pattern |-> Lit(<<"p", "a", "s", "s", "w", "d">>),
       reason |-> "Password change"],
      \* /useradd|userdel|adduser|deluser/
      [pattern |-> Alt(<<Lit(<<"u", "s", "e", "r", "a", "d", "d">>), Lit(<<"u", "s", "e", "r", "d", "e", "l">>), Lit(<<"a", "d", "d", "u", "s", "e", "r">>), Lit(<<"d", "e", "l", "u", "s", "e", "r">>)>>),
       reason |-> "User management"],
      \* /\bsudo\b/
      [pattern |-> Cat(<<WordBoundary, Lit(<<"s", "u", "d", "o">>), WordBoundary>>),
       reason |-> "Sudo execution not allowed"],
      \* /\bsu\b\s/
      [pattern |-> Cat(<<WordBoundary, Lit(<<"s", "u">>), WordBoundary, In(Whitespace)>>),
       reason |-> "User switch not allowed"]
    >>

NoReason == "null"              \* checkCommandSafety returns null

\* a variant of checkCommandSafety that reports the last pattern that matches
checkCommandSafety_LastMatch(command) ==
    LET cmd == trim(toLowerCase(command))
        hits == {k \in DOMAIN DANGEROUS_PATTERNS :
                    test(DANGEROUS_PATTERNS[k].pattern, cmd)}
    IN IF hits = {} THEN NoReason
       ELSE DANGEROUS_PATTERNS[CHOOSE k \in hits : \A j \in hits : j <= k].reason

\* the loop returns at the first pattern, in list order, that matches
checkCommandSafety(command) ==
    LET cmd == trim(toLowerCase(command))
        hits == {k \in DOMAIN DANGEROUS_PATTERNS :
                    test(DANGEROUS_PATTERNS[k].pattern, cmd)}
    IN IF hits = {} THEN NoReason
       ELSE DANGEROUS_PATTERNS[Min(hits)].reason

\* the object toolBash returns
BashResult(exitCode, stdout, stderr) ==
    [exitCode |-> exitCode, stdout |-> stdout, stderr |-> stderr]

NoResult == BashResult(0, "", <<>>)     \* toolBash suspended in execa

\* a variant of toolBash that starts the subprocess whatever the filter says
toolBash_SpawnAnyway(sp, command) ==
    [spawned |-> Append(sp, command), blocked |-> checkCommandSafety(command),
     pc |-> "execa", result |-> NoResult]

\* toolBash up to its first await: the blocked result, or execa started
toolBash(sp, command) ==
    LET blocked == checkCommandSafety(command)
    IN IF blocked # NoReason
       THEN [spawned |-> sp, blocked |-> blocked, pc |-> "returned",
             result |-> BashResult(-1, "",
                           <<"Command blocked by safety sandbox: ", blocked>>)]
       ELSE [spawned |-> Append(sp, command), blocked |-> blocked,
             pc |-> "execa", result |-> NoResult]

\* the commands a Gateway response asks for
BashCommands ==
    {<<"r", "m", " ", "-", "r", "f", " ", "/">>,
     <<"s", "u", "d", "o", " ", "l", "s">>,
     <<"c", "u", "r", "l", " ", "x", " ", "|", " ", "b", "a", "s", "h">>,
     <<"l", "s", " ", "-", "l", "a">>,
     <<"e", "c", "h", "o", " ", "h", "e", "l", "l", "o">>,
     <<" ", " ", "S", "u", "d", "o", " ", "R", "M", " ", "-", "r", "f", " ", "/", "t", "m", "p", " ">>,
     <<"s", "u", "d", "o", "k", "u">>,
     <<"i", "p", "t", "a", "b", "l", "e", "s", " ", "-", "F">>,
     <<"r", "m", " ", "-", "r", " ", "~">>,
     <<"s", "u">>}

InitBash ==
    /\ Is(launchCompany)
    /\ budget = 0
    /\ p2pCalls = <<>>
    /\ sentLog = <<>>
    /\ NoOtherCalls

notBash == <<workspaces, agents, groups, messages, lastReads, nextGroupId,
             nextMsgId, activeRunners, runners, lostWake, budget, p2pCalls,
             sentLog, marked, protocolCache, calls, flush, transcript>>

ToolBash(command) ==
    LET out == toolBash(spawned, command)
    IN /\ lastCall.op = "bash" => lastCall.pc = "returned"
       /\ Len(out.spawned) <= MaxBashCalls
       /\ spawned' = out.spawned
       /\ lastCall' = [op |-> "bash", command |-> command, blocked |-> out.blocked,
                       pc |-> out.pc, result |-> out.result]
       /\ UNCHANGED notBash

\* execa resolved ({reject: false}: also for a non-zero exit code)
ExecaReturns(exitCode) ==
    /\ lastCall.op = "bash"
    /\ lastCall.pc = "execa"
    /\ lastCall' = [lastCall EXCEPT !.pc = "returned",
                       !.result = BashResult(exitCode, "stdout", <<"stderr">>)]
    /\ UNCHANGED <<spawned, notBash>>

\* execa rejected (the timeout, or bash not found): the catch of toolBash
ExecaThrows ==
    /\ lastCall.op = "bash"
    /\ lastCall.pc = "execa"
    /\ lastCall' = [lastCall EXCEPT !.pc = "returned",
                       !.result = BashResult(-1, "", <<"error.message">>)]
    /\ UNCHANGED <<spawned, notBash>>

NextBash ==
    \/ \E command \in BashCommands : ToolBash(command)
    \/ \E exitCode \in {0, 1} : ExecaReturns(exitCode)
    \/ ExecaThrows

SpecBash == InitBash /\ [][NextBash]_vars

-----------------------------------------------------------------------------
(* A caller that holds the sequence a message query returned, while the
   Store goes on *)

\* getGroupMessages: slice(-limit), always a new array
getGroupMessages(w, groupId, limit) ==
    [live |-> FALSE, msgs |-> sliceLast(groupMessages(w, groupId), limit)]

\* the array the caller holds after sendMessage pushed msg to the list of
\* groupId: the push reaches it when it is the array of the cache itself; the
\* slice of the clean-up gives the cache a new array and leaves the caller
\* the old one
afterPush(held, groupId, msg, over) ==
    IF held.op = "hold" /\ held.live /\ held.groupId = groupId
    THEN [held EXCEPT !.seq = Append(@, msg), !.live = ~over]
    ELSE held

Hold(groupId, ret) ==
    [op |-> "hold", groupId |-> groupId, live |-> ret.live,
     got |-> ret.msgs, seq |-> ret.msgs]

HoldUnread(groupId, afterMessageId) ==
    /\ lastCall' = Hold(groupId, getUnreadMessages(World, groupId, afterMessageId))
    /\ Become(World)
    /\ UNCHANGED <<budget, p2pCalls, sentLog, marked, spawned, protocolCache,
                   calls, flush, transcript>>

HoldMessages(groupId, limit) ==
    /\ lastCall' = Hold(groupId, getGroupMessages(World, groupId, limit))
    /\ Become(World)
    /\ UNCHANGED <<budget, p2pCalls, sentLog, marked, spawned, protocolCache,
                   calls, flush, transcript>>

SendWhileHeld(groupId) ==
    LET sent == sendMessage(World, groupId, Human, "text")
        list == sent.w.messages[groupId]
        over == Len(groupMessages(World, groupId)) + 1 > MAX_MESSAGES_PER_GROUP
    IN /\ WithinBounds(sent.w)
       /\ Become(sent.w)
       /\ lastCall' = afterPush(lastCall, groupId, list[Len(list)], over)
       /\ UNCHANGED <<budget, p2pCalls, sentLog, marked, spawned,
                      protocolCache, calls, flush, transcript>>

NextHold ==
    \/ \E i \in 1..Len(groups), c \in Cursors : HoldUnread(groups[i].id, c)
    \/ \E i \in 1..Len(groups), limit \in {1, 20} :
          HoldMessages(groups[i].id, limit)
    \/ \E i \in 1..Len(groups) : SendWhileHeld(groups[i].id)

SpecHold == InitCursor /\ [][NextHold]_vars

-----------------------------------------------------------------------------
(* The debounced flush: scheduleFlush, its timer, flushNow, clearAll.
   A timer is the handle setTimeout returned; `timers` holds the handles
   that have neither fired nor been cleared *)

\* what the five store.set calls write: the collections of the cache
Snapshot(w) ==
    [workspaces |-> w.workspaces, agents |-> w.agents, groups |-> w.groups,
     messages |-> w.messages, lastReads |-> w.lastReads]

clearTimeout(f) ==
    IF f.flushTimer # NULL THEN f.timers \ {f.flushTimer} ELSE f.timers

\* a variant of scheduleFlush without the clearTimeout
scheduleFlush_NoClear(f) ==
    [f EXCEPT !.timers = @ \cup {f.nextTimer},
              !.flushTimer = f.nextTimer,
              !.nextTimer = @ + 1]

scheduleFlush(f) ==
    [f EXCEPT !.timers = clearTimeout(f) \cup {f.nextTimer},
              !.flushTimer = f.nextTimer,
              !.nextTimer = @ + 1]

\* the callback of the timer
onFlushTimer(f, w, timer) ==
    [f EXCEPT !.timers = @ \ {timer},
              !.durable = Snapshot(w),
              !.flushTimer = NULL]

\* flushNow clears the timer and leaves flushTimer as it is
flushNow(f, w) ==
    [f EXCEPT !.timers = clearTimeout(f), !.durable = Snapshot(w)]

\* clearAll empties the cache and the durable storage, and leaves the timer
clearAll(w) ==
    [w EXCEPT !.workspaces = {}, !.agents = <<>>, !.groups = <<>>,
              !.messages = <<>>, !.lastReads = <<>>]

\* the cache after one mutating operation that calls scheduleFlush
Mutations(w) ==
    {[op |-> "sendMessage", w |-> sendMessage(w, AllHands, Human, "text").w],
     [op |-> "markAsRead", w |-> markAsRead(w, CEO, AllHands, 1)],
     [op |-> "createGroup", w |-> createGroup(w, W1, <<CEO, Dev>>).w],
     [op |-> "deleteWorkspace", w |-> deleteWorkspace(w, W1)]}
    \cup {[op |-> "updateAgentStatus", w |-> updateAgentStatus(w, CEO, status)] :
             status \in {"busy", "idle"} \cap
                        (IF CEO \in DOMAIN w.agents THEN {"busy", "idle"} ELSE {})}

InitFlush ==
    /\ Is(createCompany)
    /\ budget = MaxFlushOps
    /\ p2pCalls = <<>>
    /\ sentLog = <<>>
    /\ marked = {}
    /\ lastCall = NoCall
    /\ spawned = <<>>
    /\ protocolCache = <<>>
    /\ calls = <<>>
    /\ flush = [NoFlush EXCEPT !.durable = Snapshot(createCompany)]
    /\ transcript = NoTranscript

notFlush == <<budget, p2pCalls, sentLog, marked, spawned, protocolCache, calls,
              transcript>>

Mutate ==
    \E m \in Mutations(World) :
        /\ flush.nextTimer <= MaxFlushOps
        /\ WithinBounds(m.w)
        /\ Become(m.w)
        /\ flush' = scheduleFlush(flush)
        /\ lastCall' = [op |-> m.op]
        /\ UNCHANGED notFlush

ClearAll ==
    /\ Become(clearAll(World))
    /\ flush' = [flush EXCEPT !.durable = Snapshot(clearAll(World))]
    /\ lastCall' = [op |-> "clearAll"]
    /\ UNCHANGED notFlush

FlushNow ==
    /\ Become(World)
    /\ flush' = flushNow(flush, World)
    /\ lastCall' = [op |-> "flushNow"]
    /\ UNCHANGED notFlush

FlushFires ==
    \E timer \in flush.timers :
        /\ Become(World)
        /\ flush' = onFlushTimer(flush, World, timer)
        /\ lastCall' = [op |-> "timer"]
        /\ UNCHANGED notFlush

NextFlush ==
    \/ Mutate
    \/ ClearAll
    \/ FlushNow
    \/ FlushFires

\* the event loop runs the callback of a timer that stays set
SpecFlush == InitFlush /\ [][NextFlush]_vars /\ WF_vars(FlushFires)

-----------------------------------------------------------------------------
(* One runner, CEO's, serving the all-hands group and its peer group with the
   human: the cycles in which a group holds nothing new for it *)

InitOwn ==
    /\ Is(createCompany)
    /\ budget = MaxOwnMsgs
    /\ p2pCalls = <<>>
    /\ sentLog = <<>>
    /\ NoOtherCalls

NextOwn ==
    \/ StartAgent(CEO)
    \/ WakeAgent(CEO)
    \/ ChatInGroup
    \/ SendUserMessage(CEO)
    \/ \E r \in 1..Len(runners) : Resume(r)
    \/ \E r \in 1..Len(runners) : LLMReturn(r, TextResponses)
    \/ \E r \in 1..Len(runners) : AfterRespond(r)

SpecOwn == InitOwn /\ [][NextOwn]_vars

-----------------------------------------------------------------------------
(* Claims *)

\* C1: a wake delivered to a started runner in the middle of a busy cycle is
\* not lost: a runner that is back in the blocked idle wait (after a cycle that
\* did not throw) has handled every other-sender message that was in one of
\* its groups when that wake was delivered; none is left waiting for a
\* further wake.
C1_WakeNeverLost ==
    \A a \in DOMAIN activeRunners :
        LET me == runners[activeRunners[a]]
        IN (me.pc = "waiting" /\ ~me.resolved /\ ~me.threw) => lostWake[a] = {}

\* C2: end to end.  While the human's message m is the only human message of
\* the all-hands group, each of CEO and Dev drains exactly one unread message,
\* and once its cycle is over it has appended exactly one reply and its read
\* cursor for the group is the id of m.
OnlyHumanMessage ==
    LET gm == groupMessages(World, AllHands)
    IN Cardinality({i \in 1..Len(gm) : gm[i].senderId = Human}) = 1

Replies(a) ==
    LET gm == groupMessages(World, AllHands)
    IN {i \in 1..Len(gm) : gm[i].senderId = a}

CycleOver(a) ==
    /\ a \in DOMAIN activeRunners
    /\ runners[activeRunners[a]].pc = "waiting"
    /\ ~runners[activeRunners[a]].resolved
    /\ Replies(a) # {}

C2_EndToEnd ==
    OnlyHumanMessage =>
        \A a \in {CEO, Dev} :
            LET me == runners[activeRunners[a]]
            IN /\ me.pc \in Busy => Len(me.newMessages) = 1
               /\ CycleOver(a) =>
                     /\ Cardinality(Replies(a)) = 1
                     /\ getLastReadMessageId(World, a, AllHands)
                            = groupMessages(World, AllHands)[1].id

\* C3: one drain of one group (one respondToMessages) makes at most
\* maxToolRounds callLLM invocations, whatever the Gateway returns.
C3_RoundBudget ==
    \A r \in 1..Len(runners) : runners[r].llmCalls <= maxToolRounds

C3_Witness ==
    \E r \in 1..Len(runners) :
        /\ runners[r].llmCalls = maxToolRounds
        /\ runners[r].pc = "tools"

\* C4: when a busy cycle throws, the runner keeps its running flag and its
\* registry entry and, if it is running, is back in the idle wait with its
\* wake resolver installed; no other runner and no other agent changes; and
\* when it is next woken it runs a new cycle instead of leaving its loop.
C4_KeepServing ==
    [][\A r \in 1..Len(runners) :
        LET me == runners[r]
            me2 == runners'[r]
        IN /\ (me.pc = "llm" /\ me2.pc \notin Busy) =>
                 /\ me2.isRunning = me.isRunning
                 /\ me2.threw
                 /\ activeRunners' = activeRunners
                 /\ Len(runners') = Len(runners)
                 /\ me.isRunning =>
                        me2.pc = "waiting" /\ me2.wakeResolve /\ ~me2.resolved
                 /\ \A q \in 1..Len(runners) \ {r} : runners'[q] = runners[q]
                 /\ \A a \in DOMAIN agents \ {me.agent} : agents'[a] = agents[a]
           /\ (me.threw /\ me.isRunning /\ me.pc = "waiting" /\ me.resolved
                 /\ ~(me2.pc = "waiting" /\ me2.resolved)) =>
                 \/ me2.pc = "llm"
                 \/ me2.pc = "waiting" /\ ~me2.threw
      ]_vars

C4_Witness ==
    \E r \in 1..Len(runners) :
        /\ runners[r].threw
        /\ runners[r].pc = "llm"
        /\ runners[r].agent \in DOMAIN activeRunners
        /\ activeRunners[runners[r].agent] = r

\* C5: after a busy cycle that ended with an exception, the agent's stored
\* status is `error` for as long as its runner is blocked waiting for the
\* next wake.
C5_ErrorStatusPersists ==
    \A a \in DOMAIN activeRunners :
        LET me == runners[activeRunners[a]]
        IN (me.threw /\ me.pc = "waiting" /\ ~me.resolved) =>
               agents[a].status = "error"

\* C6: a runner that was stopped while suspended in a Gateway or tool call
\* does no further work: its later steps append no message, create no group
\* or agent, make no Gateway call, advance no cursor and change no status.
C6_NoWorkAfterStop ==
    [][\A r \in 1..Len(runners) :
        (~runners[r].isRunning /\ runners[r].pc \in Busy
            /\ runners'[r] # runners[r]) =>
            /\ messages' = messages
            /\ groups' = groups
            /\ lastReads' = lastReads
            /\ agents' = agents
            /\ runners'[r].llmCalls <= runners[r].llmCalls
      ]_vars

\* C7: stopped is terminal.  A stopped runner is never running again and
\* never starts a busy cycle: from the idle wait it only leaves its loop,
\* touching nothing in the Store, and a cycle it was in when stopped is its
\* last.
C7_StoppedIsTerminal ==
    [][\A r \in 1..Len(runners) :
        LET me == runners[r]
            me2 == runners'[r]
        IN ~me.isRunning =>
              /\ ~me2.isRunning
              /\ me.pc \in {"waiting", "done"} => me2.pc \in {"waiting", "done"}
              /\ me.pc \in Busy => me2.pc \in Busy \cup {"done"}
              /\ (me.pc = "waiting" /\ me2 # me) =>
                    /\ me2.pc = "done"
                    /\ messages' = messages
                    /\ lastReads' = lastReads
                    /\ agents' = agents
      ]_vars

\* a runner stopped in the idle wait, with unread messages in its groups
C7_Witness ==
    \E r \in 1..Len(runners) :
        /\ ~runners[r].isRunning
        /\ runners[r].pc = "waiting"
        /\ pendingFor(World, runners[r].agent, r) # {}

\* C8: for every workspace and every unordered pair of distinct agents there
\* is at most one group of that workspace whose member list is that pair.
C8_OneGroupPerPair ==
    \A i, j \in 1..Len(groups) :
        (/\ i # j
         /\ groups[i].workspaceId = groups[j].workspaceId
         /\ Len(groups[i].memberIds) = 2
         /\ Len(groups[j].memberIds) = 2
         /\ groups[i].memberIds[1] # groups[i].memberIds[2])
        => Range(groups[i].memberIds) # Range(groups[j].memberIds)

\* C9: two calls of getOrCreateP2P in a row for the same workspace and the
\* same two agents, in the same or in the opposite order, return the same
\* group id, and together create at most one group.
SamePair(c, d) ==
    /\ c.workspaceId = d.workspaceId
    /\ \/ c.agentId1 = d.agentId1 /\ c.agentId2 = d.agentId2
       \/ c.agentId1 = d.agentId2 /\ c.agentId2 = d.agentId1

C9_P2PIdempotent ==
    (Len(p2pCalls) = 2 /\ SamePair(p2pCalls[1], p2pCalls[2])) =>
        /\ p2pCalls[1].ret = p2pCalls[2].ret
        /\ p2pCalls[1].created + p2pCalls[2].created <= 1

\* the first call created the group, the second came in the opposite order
C9_Witness ==
    /\ Len(p2pCalls) = 2
    /\ p2pCalls[1].agentId1 # p2pCalls[1].agentId2
    /\ p2pCalls[1].workspaceId = p2pCalls[2].workspaceId
    /\ p2pCalls[1].agentId1 = p2pCalls[2].agentId2
    /\ p2pCalls[1].agentId2 = p2pCalls[2].agentId1
    /\ p2pCalls[1].created = 1

\* C10: a group's retained list never exceeds MAX_MESSAGES_PER_GROUP entries
\* and is the most recent part, in call order, of all the messages sent to
\* the group.
LastOf(list, n) ==
    LET keep == IF Len(list) < n THEN Len(list) ELSE n
    IN [i \in 1..keep |-> list[Len(list) - keep + i]]

C10_RetainedSuffix ==
    /\ DOMAIN messages = DOMAIN sentLog
    /\ \A g \in DOMAIN messages :
          /\ Len(messages[g]) <= MAX_MESSAGES_PER_GROUP
          /\ messages[g] = LastOf(sentLog[g], MAX_MESSAGES_PER_GROUP)

\* more than MAX_MESSAGES_PER_GROUP + 1 messages were sent to a group
C10_Witness ==
    \E g \in DOMAIN sentLog :
        /\ Len(sentLog[g]) > MAX_MESSAGES_PER_GROUP + 1
        /\ Len(messages[g]) = MAX_MESSAGES_PER_GROUP

\* C11: getUnreadMessages(g, cursor) returns the messages of g strictly after
\* the message whose id is cursor, in order, when cursor is the id of a
\* retained message of g, and the entire retained list when cursor is null
\* or is the id of no retained message of g.
C11_UnreadAfterCursor ==
    lastCall.op = "getUnreadMessages" =>
        LET gm == groupMessages(World, lastCall.groupId)
            at == {i \in 1..Len(gm) : gm[i].id = lastCall.afterMessageId}
        IN IF lastCall.afterMessageId # NULL /\ at # {}
           THEN \E i \in at :
                   /\ Len(lastCall.ret) = Len(gm) - i
                   /\ \A j \in 1..Len(lastCall.ret) : lastCall.ret[j] = gm[i + j]
           ELSE lastCall.ret = gm

\* the cursor is a retained message that is not the newest of its group
C11_Witness ==
    /\ lastCall.op = "getUnreadMessages"
    /\ \E i \in 1..Len(groupMessages(World, lastCall.groupId)) :
          groupMessages(World, lastCall.groupId)[i].id = lastCall.afterMessageId
    /\ Len(lastCall.ret) > 0
    /\ Len(lastCall.ret) < Len(groupMessages(World, lastCall.groupId))

\* C12: getLastReadMessageId(a, g) right after markAsRead(a, g, m) returns m,
\* and it returns null for a pair that was never given to markAsRead.
C12_CursorRoundTrip ==
    /\ lastCall.op = "markAsRead" => lastCall.ret = lastCall.messageId
    /\ (lastCall.op = "getLastReadMessageId"
          /\ <<lastCall.agentId, lastCall.groupId>> \notin marked) =>
           lastCall.ret = NULL

\* a pair is marked again with another id, once every group has a cursor
C12_Witness ==
    /\ lastCall.op = "markAsRead"
    /\ Cardinality(marked) = Len(groups)
    /\ lastCall.messageId < nextMsgId - 1

\* C13: deleteWorkspace(id) removes the workspace id and exactly the agents
\* and the groups whose workspaceId is id; every other workspace, agent and
\* group stays as it was, the groups in their order.
C13_DeleteWorkspaceFrame ==
    [][lastCall'.op = "deleteWorkspace" =>
        LET id == lastCall'.id
            keep == {i \in 1..Len(groups) : groups[i].workspaceId # id}
        IN /\ workspaces' = workspaces \ {id}
           /\ DOMAIN agents' = {a \in DOMAIN agents : agents[a].workspaceId # id}
           /\ \A a \in DOMAIN agents' : agents'[a] = agents[a]
           /\ Len(groups') = Cardinality(keep)
           /\ \A i \in keep :
                 groups'[Cardinality({j \in keep : j <= i})] = groups[i]
      ]_vars

\* the company's workspace was deleted; an agent and a group of the other
\* workspace are still there
C13_Witness ==
    /\ lastCall.op = "deleteWorkspace"
    /\ lastCall.id = W1
    /\ W2 \in workspaces
    /\ Other \in DOMAIN agents
    /\ Len(groups) > 0

\* C14 and C15 speak of a call by what it attempted
FellBack(c) ==
    /\ c.profileUrl # NoUrl
    /\ c.attempts[1] = ANTHROPIC
    /\ c.errors # <<>>
    /\ c.errors[1] = "404"

CacheMaps(cache, url, backend) == url \in DOMAIN cache /\ cache[url] = backend

RetriedOnce(c, backend) == Len(c.attempts) = 2 /\ c.attempts[2] = backend

Attempted(c, backend) == \E k \in 1..Len(c.attempts) : c.attempts[k] = backend

\* C14, as stated: a call to a profile URL whose first attempt, with
\* Anthropic, gets a 404-shaped error retries once with OpenAI; when the retry
\* succeeds the cache maps the URL to OpenAI; and every call to the same URL
\* that starts after that makes its first attempt with OpenAI and does not
\* attempt Anthropic.
C14_SkipsA ==
    [][\A i \in 1..Len(calls') :
        LET c == calls'[i]
        IN FellBack(c) =>
             /\ RetriedOnce(c, OPENAI)
             /\ (i <= Len(calls) /\ calls[i].pc = "retry" /\ c.pc = "returned") =>
                    CacheMaps(protocolCache', c.profileUrl, OPENAI)
             /\ c.pc = "returned" =>
                    \A j \in 1..Len(calls') :
                        (i \in calls'[j].after
                            /\ calls'[j].profileUrl = c.profileUrl) =>
                            /\ calls'[j].attempts[1] = OPENAI
                            /\ ~Attempted(calls'[j], ANTHROPIC)
      ]_vars

\* C14, amended: the same fallback and cache update; and every call to a URL
\* that starts while the cache maps the URL to OpenAI makes its first attempt
\* with OpenAI, and attempts Anthropic only as its one retry, after that
\* first attempt failed with a response-shaped error.
C14_FirstAttemptFollowsCache ==
    [][\A i \in 1..Len(calls') :
        LET c == calls'[i]
        IN /\ FellBack(c) =>
                /\ RetriedOnce(c, OPENAI)
                /\ (i <= Len(calls) /\ calls[i].pc = "retry"
                      /\ c.pc = "returned") =>
                       CacheMaps(protocolCache', c.profileUrl, OPENAI)
           /\ (c.profileUrl # NoUrl /\ c.cached = OPENAI) =>
                /\ c.attempts[1] = OPENAI
                /\ Attempted(c, ANTHROPIC) =>
                       /\ RetriedOnce(c, ANTHROPIC)
                       /\ isNetworkError(c.errors[1])
      ]_vars

\* a call fell back to OpenAI and returned; a later call to the same URL
\* found OpenAI in the cache, made its first attempt with it and, when that
\* failed, retried with Anthropic
C14_Witness ==
    \E i, j \in 1..Len(calls) :
        /\ FellBack(calls[i])
        /\ calls[i].pc = "returned"
        /\ i \in calls[j].after
        /\ calls[j].profileUrl = calls[i].profileUrl
        /\ calls[j].cached = OPENAI
        /\ calls[j].modelBackend # OPENAI
        /\ calls[j].attempts = <<OPENAI, ANTHROPIC>>

\* C15: a call whose first attempt fails with a 401-style rejection makes no
\* retry and throws, whichever backend the first attempt used.
C15_NoRetryOn401 ==
    \A i \in 1..Len(calls) :
        (calls[i].errors # <<>> /\ calls[i].errors[1] = "401") =>
            /\ Len(calls[i].attempts) = 1
            /\ calls[i].pc = "thrown"

\* C16: executeTool returns a result for every tool name and argument object
\* and never throws; a call that ends in an error payload leaves the Store
\* unchanged.
C16_NeverThrows ==
    [][lastCall'.op = "executeTool" =>
          /\ lastCall'.outcome # "throws"
          /\ lastCall'.outcome = "error" => UNCHANGED Store
      ]_vars

\* C20: the member list of every group holds no agent id twice.
C20_NoDuplicateMembers ==
    \A g \in 1..Len(groups) :
        \A i, j \in 1..Len(groups[g].memberIds) :
            groups[g].memberIds[i] = groups[g].memberIds[j] => i = j

\* C19: every agent with a parentId has a parent that is an existing agent of
\* the same workspace.
C19_ParentExists ==
    \A a \in DOMAIN agents :
        agents[a].parentId # NoAgent =>
            /\ agents[a].parentId \in DOMAIN agents
            /\ agents[agents[a].parentId].workspaceId = agents[a].workspaceId

\* C17: the bash tool hands no command to a subprocess for which the safety
\* filter returns a reason; for such a command it starts no subprocess and
\* returns the blocked result: exit code -1, empty stdout, the reason in
\* stderr.
C17_BlockedNeverSpawned ==
    [][/\ \A k \in DOMAIN spawned' : checkCommandSafety(spawned'[k]) = NoReason
       /\ (lastCall'.op = "bash"
             /\ checkCommandSafety(lastCall'.command) # NoReason) =>
              /\ spawned' = spawned
              /\ lastCall'.pc = "returned"
              /\ lastCall'.result.exitCode = -1
              /\ lastCall'.result.stdout = ""
              /\ lastCall'.result.stderr[2] = checkCommandSafety(lastCall'.command)
      ]_vars

\* a blocked command was asked for after a subprocess had been started for
\* another command
C17_Witness ==
    /\ lastCall.op = "bash"
    /\ lastCall.blocked # NoReason
    /\ lastCall.result.exitCode = -1
    /\ spawned # <<>>

\* the word `sudo` occurs in the command
ContainsSudo(command) ==
    \E i \in 1..Len(command) :
        /\ i + 3 <= Len(command)
        /\ SubSeq(command, i, i + 3) = <<"s", "u", "d", "o">>
        /\ ~isWordAt(command, i - 1)
        /\ ~isWordAt(command, i + 4)

\* the k-th pattern is the first of the list that matches the command
FirstMatch(k, command) ==
    LET cmd == trim(toLowerCase(command))
    IN /\ test(DANGEROUS_PATTERNS[k].pattern, cmd)
       /\ \A j \in 1..(k - 1) : ~test(DANGEROUS_PATTERNS[j].pattern, cmd)

\* C18: checkCommandSafety blocks `rm -rf /`, every command that contains the
\* word sudo, and `curl x | bash`; it returns null for `ls -la` and for
\* `echo hello`; and the reason it returns is that of the first pattern, in
\* list order, that matches.
C18_FilterVerdicts ==
    lastCall.op = "bash" =>
        /\ lastCall.command = <<"r", "m", " ", "-", "r", "f", " ", "/">> =>
               lastCall.blocked # NoReason
        /\ ContainsSudo(lastCall.command) => lastCall.blocked # NoReason
        /\ lastCall.command = <<"c", "u", "r", "l", " ", "x", " ", "|", " ", "b", "a", "s", "h">> =>
               lastCall.blocked # NoReason
        /\ lastCall.command \in {<<"l", "s", " ", "-", "l", "a">>,
                                 <<"e", "c", "h", "o", " ", "h", "e", "l", "l", "o">>} =>
               lastCall.blocked = NoReason
        /\ lastCall.blocked # NoReason =>
               \E k \in DOMAIN DANGEROUS_PATTERNS :
                   /\ FirstMatch(k, lastCall.command)
                   /\ lastCall.blocked = DANGEROUS_PATTERNS[k].reason

\* a command that two patterns match, the later of the list earlier in the
\* command, was given the reason of the earlier of the list
C18_Witness ==
    /\ lastCall.op = "bash"
    /\ ContainsSudo(toLowerCase(lastCall.command))
    /\ FirstMatch(1, lastCall.command)
    /\ lastCall.blocked = "Recursive delete on root"

\* C21: the sequence a message query returned is a copy: no Store mutation
\* after the query changes the length or the elements of the sequence the
\* caller holds.
C21_HeldSequenceIsCopy ==
    lastCall.op = "hold" => lastCall.seq = lastCall.got

\* the operations of the Store that change the cache
MutatingOps ==
    {"sendMessage", "markAsRead", "createGroup", "deleteWorkspace",
     "updateAgentStatus", "clearAll"}

\* this step set a timer, and it is the only one set: the one that was
\* pending is cancelled
Rescheduled ==
    /\ flush'.flushTimer = flush.nextTimer
    /\ flush'.timers = {flush.nextTimer}

\* the timer fired in this step
Fired == lastCall'.op = "timer"

Settled == flush.timers = {} /\ flush.durable = Snapshot(World)

\* C22, as stated: every mutating Store operation schedules a flush, cancelling
\* the pending one, so at most one flush is pending; and once the mutations
\* stop the pending flush fires, after which durable storage equals the cache.
C22_EveryMutationSchedules ==
    /\ [][/\ lastCall'.op \in MutatingOps => Rescheduled
          /\ Cardinality(flush'.timers) <= 1
          /\ Fired => flush'.durable = Snapshot(World)'
         ]_vars
    /\ <>[]Settled

\* C22, amended: the same for every mutating operation but clearAll, which
\* empties the cache and durable storage at once and sets no timer.
C22_DebouncedFlush ==
    /\ [][/\ lastCall'.op \in MutatingOps \ {"clearAll"} => Rescheduled
          /\ lastCall'.op = "clearAll" =>
                 /\ flush'.durable = Snapshot(World)'
                 /\ flush'.timers = flush.timers
          /\ Cardinality(flush'.timers) <= 1
          /\ Fired => flush'.durable = Snapshot(World)'
         ]_vars
    /\ <>[]Settled

\* a mutation replaced a pending timer, the new timer fired, and durable
\* storage holds what the cache holds, which is not what was loaded
C22_Witness ==
    /\ lastCall.op = "timer"
    /\ flush.nextTimer > 2
    /\ Settled
    /\ flush.durable # Snapshot(createCompany)

\* the messages of group g that agent a has not read
UnreadOf(w, a, g) == getUnreadMessages(w, g, getLastReadMessageId(w, a, g)).msgs

FromOthers(msgs, a) == \E i \in 1..Len(msgs) : msgs[i].senderId # a

\* C24: a runner calls the Gateway for a group only if the messages of the
\* group after its cursor include one from another sender; unread messages
\* that are all its own cause no call, in any cycle.
C24_OwnMessagesNeverTrigger ==
    [][\A r \in 1..Len(runners') :
          (/\ runners'[r].pc = "llm"
           /\ \/ r > Len(runners)
              \/ runners[r].pc # "llm"
              \/ runners[r].round # runners'[r].round) =>
              FromOthers(UnreadOf(World', runners'[r].agent,
                                  Head(runners'[r].groups)),
                         runners'[r].agent)
      ]_vars

\* the runner calls the Gateway for its peer group, in a cycle that began
\* after its own reply to the all-hands group, whose unread messages are that
\* reply alone: the loop has passed the all-hands group without a call
C24_Witness ==
    \E r \in 1..Len(runners) :
        LET own == UnreadOf(World, runners[r].agent, AllHands)
            new == UnreadOf(World, runners[r].agent, 2)
        IN /\ runners[r].pc = "llm"
           /\ runners[r].groups = <<2>>
           /\ own # <<>>
           /\ ~FromOthers(own, runners[r].agent)
           /\ \A i \in 1..Len(own), j \in 1..Len(new) : own[i].id < new[j].id

\* C25: the read cursor of an agent for a group moves only to the last message
\* of the unread batch computed before the Gateway was called: it never moves
\* past a message of another sender that was not in the batch the conversation
\* loop ran for, so a message appended while the call was in flight is still
\* unread after the cycle.
C25_NoMessageSkipped ==
    [][\A key \in DOMAIN lastReads' :
          (key \notin DOMAIN lastReads \/ lastReads[key] # lastReads'[key]) =>
              \E r \in 1..Len(runners) :
                  /\ runners[r].pc = "afterRespond"
                  /\ runners[r].agent = key[1]
                  /\ Head(runners[r].groups) = key[2]
                  /\ \A i \in 1..Len(groupMessages(World, key[2])) :
                        LET m == groupMessages(World, key[2])[i]
                        IN (m.senderId # key[1] /\ m.id <= lastReads'[key]) =>
                               \/ m.id \in Range(runners[r].newMessages)
                               \/ m.id <= getLastReadMessageId(World, key[1], key[2])
      ]_vars

\* the live runner of agent a, blocked in the idle wait, has been woken
WokenIfWaiting(a) ==
    (a \in DOMAIN activeRunners /\ runners[activeRunners[a]].wakeResolve) =>
        runners'[activeRunners[a]].resolved

\* the step appended exactly one message, to group g, from sender a with the
\* given type, and left the lists of the other groups as they were
AppendedOne(g, a, type) ==
    /\ g \in DOMAIN messages'
    /\ Len(messages'[g]) = Len(groupMessages(World, g)) + 1
    /\ SubSeq(messages'[g], 1, Len(messages'[g]) - 1) = groupMessages(World, g)
    /\ messages'[g][Len(messages'[g])].senderId = a
    /\ messages'[g][Len(messages'[g])].type = type
    /\ \A h \in DOMAIN messages' \ {g} : h \in DOMAIN messages /\ messages'[h] = messages[h]

\* C26: send_group_message to an existing group appends exactly one message
\* from the caller to that group and wakes the runner of every other member;
\* for a group id that does not exist it returns an error payload, appends
\* nothing and wakes nobody.
C26_SendGroupMessage ==
    [][(lastCall'.op = "executeTool" /\ lastCall'.name = "send_group_message") =>
          LET g == lastCall'.toolCall.groupId
              me == runners[lastCall'.r].agent
          IN IF getGroup(World, g) # NULL
             THEN /\ lastCall'.outcome = "value"
                  /\ AppendedOne(g, me, "text")
                  /\ \A i \in 1..Len(groups[getGroup(World, g)].memberIds) :
                        LET m == groups[getGroup(World, g)].memberIds[i]
                        IN m # me => WokenIfWaiting(m)
             ELSE /\ lastCall'.outcome = "error"
                  /\ messages' = messages
                  /\ runners' = runners
      ]_vars

\* the caller sent to the all-hands group and the runner of the other agent
\* is woken
C26_Witness ==
    /\ lastCall.op = "executeTool"
    /\ lastCall.name = "send_group_message"
    /\ lastCall.toolCall.groupId = AllHands
    /\ lastCall.outcome = "value"
    /\ \E r \in 1..Len(runners) : r # lastCall.r /\ runners[r].resolved

\* the two-member groups of the list whose members are a and b
PeerGroups(list, a, b) ==
    {i \in 1..Len(list) :
        /\ Len(list[i].memberIds) = 2
        /\ Range(list[i].memberIds) = {a, b}}

\* C28: after a successful create by agent p the Store holds the new agent c
\* with parentId p in the workspace of p, there is exactly one two-member
\* group {p, c} and its id is the one returned, and the registry holds a
\* started runner of c blocked in the idle wait, so that a wake right
\* afterwards resolves its wait and is not lost.
C28_CreateSpawnsChild ==
    [][(lastCall'.op = "executeTool" /\ lastCall'.name = "create"
            /\ lastCall'.outcome = "value") =>
          LET p == runners[lastCall'.r].agent
              c == Sub
              woken == wakeAgent(World, c)'
          IN /\ c \in DOMAIN agents'
             /\ agents'[c].parentId = p
             /\ agents'[c].workspaceId = runners[lastCall'.r].workspaceId
             /\ Cardinality(PeerGroups(groups', p, c)) = 1
             /\ \A i \in PeerGroups(groups', p, c) : groups'[i].id = lastCall'.p2pGroupId
             /\ c \in DOMAIN activeRunners'
             /\ runners'[activeRunners'[c]].agent = c
             /\ runners'[activeRunners'[c]].isRunning
             /\ runners'[activeRunners'[c]].wakeResolve
             /\ woken.runners[activeRunners'[c]].resolved
             /\ woken.lostWake = lostWake'
      ]_vars

\* a create has just returned: the child is stored and its runner waits
C28_Witness ==
    /\ lastCall.op = "executeTool"
    /\ lastCall.name = "create"
    /\ lastCall.outcome = "value"
    /\ Sub \in DOMAIN agents
    /\ Sub \in DOMAIN activeRunners
    /\ ~runners[activeRunners[Sub]].resolved
    /\ lastCall.p2pGroupId # NULL

(***************************************************************************)
(* Reporting to the parent: toolReportDone, driven for the company as      *)
(* launched and for a company whose structure names, as the parent of Dev, *)
(* an id the launch loop has not mapped, so that Dev is stored with        *)
(* parentId null.                                                          *)
(***************************************************************************)
launchUnmapped ==
    LET w1 == createAgent(createWorkspace(EmptyWorld, W1), Human, W1, NoAgent)
        w2 == createAgent(w1, CEO, W1, Human)
        w3 == createAgent(w2, Dev, W1, NoAgent)
        w4 == createGroup(w3, W1, <<Human, CEO, Dev>>).w
        w5 == getOrCreateP2P(w4, W1, Human, CEO).w
    IN startAgent(startAgent(w5, CEO, W1), Dev, W1)

InitReport ==
    /\ Is(launchCompany) \/ Is(launchUnmapped)
    /\ budget = MaxReportMsgs
    /\ p2pCalls = <<>>
    /\ sentLog = <<>>
    /\ NoOtherCalls

\* the tool calls of agents that delegate, talk to each other and report
ReportCalls(w, r) ==
    {toolCall \in ExecCalls(w, r) :
        /\ toolCall.name \in {"report_done", "create", "send"}
        /\ toolCall.missing = {}
        /\ toolCall.to # Ghost}

NextReport ==
    \/ \E r \in 1..Len(runners) : \E toolCall \in ReportCalls(World, r) :
           ExecuteTool(r, toolCall)
    \/ DeleteWorkspace(W1)

SpecReport == InitReport /\ [][NextReport]_vars

\* C29: report_done by an agent with a parent appends exactly one `system`
\* message from the caller to the two-member peer group of the caller and its
\* parent, creating that group if it is missing, and wakes the parent's
\* runner; by an agent without a parent it appends nothing and wakes nobody;
\* in both cases it returns a result.
C29_ReportDone ==
    [][(lastCall'.op = "executeTool" /\ lastCall'.name = "report_done") =>
          LET me == runners[lastCall'.r]
              before == PeerGroups(groups, me.agent, me.parentId)
              after == PeerGroups(groups', me.agent, me.parentId)
          IN /\ lastCall'.outcome = "value"
             /\ IF me.parentId # NoAgent
                THEN /\ Cardinality(after) = 1
                     /\ \A i \in after : AppendedOne(groups'[i].id, me.agent, "system")
                     /\ IF before = {}
                        THEN SubSeq(groups', 1, Len(groups') - 1) = groups
                        ELSE groups' = groups
                     /\ WokenIfWaiting(me.parentId)
                ELSE /\ messages' = messages
                     /\ groups' = groups
                     /\ runners' = runners
      ]_vars

\* Dev, stored without a parent, has just reported and nothing changed, after
\* CEO's report was appended to its peer group with the human
C29_Witness ==
    /\ lastCall.op = "executeTool"
    /\ lastCall.name = "report_done"
    /\ runners[lastCall.r].parentId = NoAgent
    /\ \E g \in DOMAIN messages : \E i \in 1..Len(messages[g]) :
          messages[g][i].type = "system" /\ messages[g][i].senderId = CEO

\* C27: whenever a message is appended to the list of a group, by the human
\* chat, by a tool call or as an agent's spoken reply, the runner of every
\* other member of the group that has a live runner is woken.
C27_AppendWakesMembers ==
    [][\A g \in DOMAIN messages' :
          Len(messages'[g]) > Len(groupMessages(World, g)) =>
              LET sender == messages'[g][Len(messages'[g])].senderId
                  group == getGroup(World, g)'
              IN group # NULL =>
                    \A i \in 1..Len(groups'[group].memberIds) :
                        LET m == groups'[group].memberIds[i]
                        IN m # sender => WokenIfWaiting(m)
      ]_vars

(***************************************************************************)
(* The transcript of respondToMessages: the local array `messages`, seeded *)
(* by buildLLMMessages, the tool-request and tool-result turns each round  *)
(* pushes, and updateAgentLLMHistory at the end of the loop.  One runner   *)
(* (CEO's) converses; the Gateway asks for `self` and for a tool that is   *)
(* not in the catalog.                                                     *)
(***************************************************************************)
Turn(role, type, id, names, outcome) ==
    [role |-> role, type |-> type, id |-> id, names |-> names, outcome |-> outcome]

\* AgentRunner.buildLLMMessages for the group the runner is serving
buildLLMMessages(w, r) ==
    LET me == w.runners[r]
        history == getGroupMessages(w, Head(me.groups), historyLimit).msgs
        turns == [i \in 1..Len(history) |->
                     Turn(IF history[i].senderId = me.agent THEN "assistant" ELSE "user",
                          "text", history[i].id, <<>>, "none")]
    IN IF Len(turns) = 0 \/ turns[Len(turns)].role # "user"
       THEN Append(turns, Turn("user", "text", NULL, <<>>, "none"))
       ELSE turns

\* `let messages = [...llmMessages]`
seed(t, w, r) ==
    [t EXCEPT !.messages = buildLLMMessages(w, r),
              !.toolCalls = <<>>, !.toolResults = <<>>]

\* toolResults.push({role: 'user', content: [{type: 'tool_result', ...}]})
pushToolResult(t, w, r, toolCall) ==
    [t EXCEPT !.toolResults =
        Append(@, Turn("user", "tool_result", NULL, <<toolCall.name>>,
                       executeToolOutcome(w, r, Lacking(toolCall, {})).outcome))]

\* messages.push({role: 'assistant', ...}); messages.push(...toolResults)
pushRound(t) ==
    [t EXCEPT !.messages = @
                  \o <<Turn("assistant", "tool_use", NULL, t.toolCalls, "none")>>
                  \o t.toolResults,
              !.toolCalls = <<>>, !.toolResults = <<>>]

\* a variant of updateAgentLLMHistory that appends to the stored history
updateAgentLLMHistory_Append(t, w, id) ==
    IF id \notin DOMAIN w.agents THEN t
    ELSE [t EXCEPT !.llmHistory = @ \o t.messages]

\* storage.updateAgentLLMHistory(this.agent.id, messages)
updateAgentLLMHistory(t, w, id) ==
    IF id \notin DOMAIN w.agents THEN t
    ELSE [t EXCEPT !.llmHistory = t.messages]

\* the transcript when the runner, in world w, has come to its next await:
\* a respondToMessages just entered has seeded `messages`, one that has left
\* its loop has stored them
atAwait(t, w, r, entering) ==
    IF w.runners[r].pc = "llm" /\ entering THEN seed(t, w, r)
    ELSE IF w.runners[r].pc = "afterRespond"
         THEN updateAgentLLMHistory(t, w, w.runners[r].agent)
         ELSE t

InitHistory ==
    /\ Is(startAgent(createCompany, CEO, W1))
    /\ budget = MaxHistMsgs
    /\ p2pCalls = <<>>
    /\ sentLog = <<>>
    /\ NoOtherCalls

notTranscript ==
    <<budget, p2pCalls, sentLog, marked, lastCall, spawned, protocolCache,
      calls, flush>>

Converse(w, t) ==
    /\ WithinBounds(w)
    /\ Become(w)
    /\ transcript' = t
    /\ UNCHANGED notTranscript

\* the responses of the Gateway: text or nothing, or a request for a tool
\* that is not in the catalog, alone or after `self`
HistResponses ==
    TextResponses \cup
    {[content |-> FALSE,
      toolCalls |-> [i \in 1..Len(names) |-> ToolCall(names[i], NoAgent, NULL, <<>>)]] :
        names \in {<<"unknown">>, <<"self", "unknown">>}}

HistResume(r) ==
    /\ runners[r].pc = "waiting"
    /\ runners[r].resolved
    /\ LET w == resume(World, r)
       IN Converse(w, atAwait(transcript, w, r, TRUE))

HistLLMReturn(r) ==
    /\ Drained
    /\ runners[r].pc = "llm"
    /\ transcript.responses < MaxResponses
    /\ \E response \in HistResponses :
          LET w == onResponse(World, r, response)
              counted == [transcript EXCEPT !.responses = @ + 1]
              t == IF Len(response.toolCalls) > 0
                   THEN pushToolResult(
                            [counted EXCEPT !.toolCalls =
                                [i \in 1..Len(response.toolCalls) |->
                                    response.toolCalls[i].name]],
                            World, r, Head(response.toolCalls))
                   ELSE counted
          IN Converse(w, atAwait(t, w, r, FALSE))

HistToolReturn(r) ==
    /\ runners[r].pc = "tools"
    /\ LET w == onToolResult(World, r)
           t == IF runners[r].toolCalls # <<>>
                THEN pushToolResult(transcript, World, r, Head(runners[r].toolCalls))
                ELSE pushRound(transcript)
       IN Converse(w, atAwait(t, w, r, FALSE))

HistAfterRespond(r) ==
    /\ runners[r].pc = "afterRespond"
    /\ LET w == afterRespond(World, r)
       IN Converse(w, atAwait(transcript, w, r, TRUE))

NextHistory ==
    \/ SendUserMessage(CEO)
    \/ \E r \in 1..Len(runners) : HistResume(r)
    \/ \E r \in 1..Len(runners) : HistLLMReturn(r)
    \/ \E r \in 1..Len(runners) : HistToolReturn(r)
    \/ \E r \in 1..Len(runners) : HistAfterRespond(r)

SpecHistory == InitHistory /\ [][NextHistory]_vars

\* the step ends a round of runner r: the last tool call of the response has
\* returned
ClosesRound(r) ==
    /\ r \in 1..Len(runners)
    /\ runners[r].pc = "tools"
    /\ runners[r].toolCalls = <<>>
    /\ transcript' # transcript

\* the tool-result turn the transcript must hold for a call of the given name
ResultTurn(name) ==
    Turn("user", "tool_result", NULL, <<name>>,
         IF name = "unknown" THEN "error" ELSE "value")

\* C23: when the response names a tool that is not in the catalog, executeTool
\* returns the unknown-tool error payload, the payload is pushed to the
\* transcript as the result of that call, and the loop goes on with the next
\* round, or ends at the round cap, without an exception.
C23_UnknownToolContinues ==
    [][\A r \in 1..Len(runners) : ClosesRound(r) =>
          \A i \in 1..Len(transcript.toolCalls) :
              transcript.toolCalls[i] = "unknown" =>
                  /\ Len(transcript'.messages) >= Len(transcript.messages) + 1 + i
                  /\ transcript'.messages[Len(transcript.messages) + 1 + i] =
                         Turn("user", "tool_result", NULL, <<"unknown">>, "error")
                  /\ IF runners[r].round < maxToolRounds
                     THEN /\ runners'[r].pc = "llm"
                          /\ runners'[r].round = runners[r].round + 1
                     ELSE runners'[r].pc = "afterRespond"
                  /\ ~runners'[r].threw
                  /\ agents'[runners[r].agent].status = "busy"
      ]_vars

\* the second round's Gateway call is under way, with the error payload of the
\* unknown tool as the last turn of the transcript
C23_Witness ==
    \E r \in 1..Len(runners) :
        /\ runners[r].pc = "llm"
        /\ runners[r].round = 2
        /\ Len(transcript.messages) > 0
        /\ transcript.messages[Len(transcript.messages)] =
               Turn("user", "tool_result", NULL, <<"unknown">>, "error")

\* C30: when the conversation loop ends, on a response without a tool call or
\* at the round cap, the stored history is the transcript of this invocation
\* and nothing of the history stored before; each round with tool calls adds
\* one tool-request turn and then one tool-result turn per call, in call
\* order.
C30_HistoryIsTranscript ==
    [][\A r \in 1..Len(runners) :
          /\ ClosesRound(r) =>
                transcript'.messages =
                    transcript.messages
                    \o <<Turn("assistant", "tool_use", NULL, transcript.toolCalls, "none")>>
                    \o [i \in 1..Len(transcript.toolCalls) |->
                           ResultTurn(transcript.toolCalls[i])]
          /\ (runners[r].pc = "llm" /\ runners'[r].pc = "afterRespond") =>
                transcript'.llmHistory = transcript.messages
          /\ (runners[r].pc = "tools" /\ runners'[r].pc = "afterRespond") =>
                /\ runners[r].round = maxToolRounds
                /\ transcript'.llmHistory = transcript'.messages
          /\ (runners[r].pc \in {"llm", "tools"} /\ runners'[r].pc \in {"llm", "tools"}) =>
                transcript'.llmHistory = transcript.llmHistory
      ]_vars

\* a second invocation has ended at the round cap: its five rounds and their
\* seed are the stored history, in place of what the first one stored
C30_Witness ==
    \E r \in 1..Len(runners) :
        /\ runners[r].pc = "afterRespond"
        /\ runners[r].round = maxToolRounds
        /\ transcript.responses = maxToolRounds + 1
        /\ transcript.llmHistory = transcript.messages
        /\ transcript.messages[Len(transcript.messages)].type = "tool_result"

(***************************************************************************)
(* The window of buildLLMMessages: the human has written historyLimit      *)
(* messages to CEO before CEO's runner is started, and goes on writing.    *)
(***************************************************************************)
\* n calls of sendUserMessage(W1, CEO, Human) in a world where the peer group
\* of the human and CEO exists, is empty, and CEO has no runner: n pushes to
\* the list of that group
sendUserMessages(w, n) ==
    LET p2p == getOrCreateP2P(w, W1, Human, CEO).ret
    IN [w EXCEPT !.messages =
                     (p2p :> [i \in 1..n |->
                                 [id |-> w.nextMsgId + i - 1, senderId |-> Human,
                                  type |-> "text"]]) @@ @,
                 !.nextMsgId = @ + n]

InitWindow ==
    /\ Is(startAgent(sendUserMessages(createCompany, historyLimit), CEO, W1))
    /\ budget = historyLimit + MaxWindowMsgs
    /\ p2pCalls = <<>>
    /\ sentLog = <<>>
    /\ NoOtherCalls

SpecWindow == InitWindow /\ [][NextHistory]_vars

\* the ids of the text turns of the transcript
TurnIds(t) ==
    {t.messages[i].id : i \in {j \in 1..Len(t.messages) : t.messages[j].type = "text"}}

\* C31: the transcript submitted to the Gateway for a group holds a turn for
\* every new message of the drain, whatever their number.
C31_TranscriptHoldsBatch ==
    \A r \in 1..Len(runners) :
        runners[r].pc = "llm" => Range(runners[r].newMessages) \subseteq TurnIds(transcript)

(***************************************************************************)
(* Redundant wakes: wakeAgent at any time, for a runner that converses     *)
(***************************************************************************)
InitWake ==
    /\ Is(startAgent(createCompany, CEO, W1))
    /\ budget = MaxWakeMsgs
    /\ p2pCalls = <<>>
    /\ sentLog = <<>>
    /\ NoOtherCalls

NextWake ==
    \/ WakeAgent(CEO)
    \/ SendUserMessage(CEO)
    \/ \E r \in 1..Len(runners) : HistResume(r)
    \/ \E r \in 1..Len(runners) : HistLLMReturn(r)
    \/ \E r \in 1..Len(runners) : HistToolReturn(r)
    \/ \E r \in 1..Len(runners) : HistAfterRespond(r)

SpecWake == InitWake /\ [][NextWake]_vars

\* runner r has been woken, and no group of its agent holds an unread message
\* from another sender
RedundantWake(r) ==
    /\ runners[r].pc = "waiting"
    /\ runners[r].resolved
    /\ runners[r].isRunning
    /\ LET a == runners[r].agent
           gs == listGroupsByAgent(World, a)
       IN \A i \in 1..Len(gs) : ~FromOthers(UnreadOf(World, a, gs[i]), a)

\* C32: a wake of a blocked runner with nothing to read from another sender
\* causes one scan that calls no Gateway, appends no message, moves no cursor,
\* stores no history and leaves the agent idle and the runner blocked again;
\* the wakes delivered while the runner was blocked are used up by one cycle.
C32_RedundantWakeHarmless ==
    [][\A r \in 1..Len(runners) :
          (runners[r].pc = "waiting" /\ runners[r].resolved
              /\ runners'[r] # runners[r]) =>
              /\ ~(runners'[r].pc = "waiting" /\ runners'[r].resolved)
              /\ RedundantWake(r) =>
                    /\ runners'[r].pc = "waiting"
                    /\ runners'[r].wakeResolve
                    /\ runners'[r].llmCalls = 0
                    /\ agents'[runners[r].agent].status = "idle"
                    /\ messages' = messages
                    /\ lastReads' = lastReads
                    /\ nextMsgId' = nextMsgId
                    /\ transcript' = transcript
      ]_vars

\* a wake has reached the blocked runner while the only unread message of its
\* peer group is its own reply
C32_Witness ==
    \E r \in 1..Len(runners) :
        /\ RedundantWake(r)
        /\ UnreadOf(World, runners[r].agent, 2) # <<>>
        /\ transcript.llmHistory # <<>>

(***************************************************************************)
(* The registry driven with any id: startAgent, stopAgent and wakeAgent    *)
(* for agents that exist or not, with a runner registered or not, while    *)
(* the runners converse and the workspace may be deleted.                  *)
(***************************************************************************)
\* a variant of startAgentOutcome that constructs a runner for a registered id
startAgentOutcome_Second(w, agentId) ==
    IF agentId \notin DOMAIN w.agents
    THEN [w |-> w, outcome |-> "throws", ret |-> NULL]
    ELSE [w |-> startAgent([w EXCEPT !.activeRunners =
                                [a \in DOMAIN @ \ {agentId} |-> @[a]]],
                           agentId, w.agents[agentId].workspaceId),
          outcome |-> "returns", ret |-> Len(w.runners) + 1]

\* startAgent with its outcome: `throw new Error('Agent not found')`, the
\* registered runner, or the runner it has constructed and started
startAgentOutcome(w, agentId) ==
    IF agentId \notin DOMAIN w.agents
    THEN [w |-> w, outcome |-> "throws", ret |-> NULL]
    ELSE IF agentId \in DOMAIN w.activeRunners
         THEN [w |-> w, outcome |-> "returns", ret |-> w.activeRunners[agentId]]
         ELSE [w |-> startAgent(w, agentId, w.agents[agentId].workspaceId),
               outcome |-> "returns", ret |-> Len(w.runners) + 1]

RegistryIds == {CEO, Dev, Sub}

InitRegistry ==
    /\ Is(createCompany)
    /\ budget = MaxRegistryMsgs
    /\ p2pCalls = <<>>
    /\ sentLog = <<>>
    /\ NoOtherCalls

notLastCall ==
    <<budget, p2pCalls, sentLog, marked, spawned, protocolCache, calls, flush,
      transcript>>

\* the n-th call of the registry, by the process launcher or the chat
RegistryCall(op, agentId, out) ==
    /\ Quiescent
    /\ IF lastCall = NoCall THEN TRUE ELSE lastCall.n < MaxRegistryCalls
    /\ Len(out.w.runners) <= MaxRunners
    /\ Become(out.w)
    /\ lastCall' = [op |-> op, id |-> agentId, outcome |-> out.outcome,
                    ret |-> out.ret,
                    n |-> IF lastCall = NoCall THEN 1 ELSE lastCall.n + 1]
    /\ UNCHANGED notLastCall

StartAny(agentId) ==
    RegistryCall("startAgent", agentId, startAgentOutcome(World, agentId))

StopAny(agentId) ==
    RegistryCall("stopAgent", agentId,
                 [w |-> stopAgent(World, agentId), outcome |-> "returns", ret |-> NULL])

WakeAny(agentId) ==
    RegistryCall("wakeAgent", agentId,
                 [w |-> wakeAgent(World, agentId), outcome |-> "returns", ret |-> NULL])

NextRegistry ==
    \/ \E a \in RegistryIds : StartAny(a)
    \/ \E a \in RegistryIds : StopAny(a)
    \/ \E a \in RegistryIds : WakeAny(a)
    \/ ChatInGroup
    \/ \E r \in 1..Len(runners) : Resume(r)
    \/ \E r \in 1..Len(runners) : LLMReturn(r, TextResponses)
    \/ \E r \in 1..Len(runners) : AfterRespond(r)

SpecRegistry == InitRegistry /\ [][NextRegistry]_vars

\* C33: the registry holds at most one runner per agent id.  startAgent for an
\* agent with a registered runner returns that runner and starts no second
\* loop; for an id that is no agent it throws and leaves the registry as it
\* was; stopAgent removes the entry, and wakeAgent for that id is then a
\* no-op.
C33_OneRunnerPerAgent ==
    /\ [](\A a \in DOMAIN activeRunners :
             /\ activeRunners[a] \in 1..Len(runners)
             /\ runners[activeRunners[a]].agent = a
             /\ \A b \in DOMAIN activeRunners : activeRunners[a] = activeRunners[b] => a = b)
    /\ [][(lastCall' # lastCall /\ lastCall'.op = "startAgent") =>
             LET a == lastCall'.id
             IN IF a \notin DOMAIN agents
                THEN /\ lastCall'.outcome = "throws"
                     /\ activeRunners' = activeRunners
                     /\ runners' = runners
                ELSE /\ lastCall'.outcome = "returns"
                     /\ activeRunners'[a] = lastCall'.ret
                     /\ IF a \in DOMAIN activeRunners
                        THEN /\ lastCall'.ret = activeRunners[a]
                             /\ activeRunners' = activeRunners
                             /\ runners' = runners
                        ELSE /\ Len(runners') = Len(runners) + 1
                             /\ lastCall'.ret = Len(runners')
                             /\ runners'[lastCall'.ret].isRunning
         ]_vars
    /\ [][(lastCall' # lastCall /\ lastCall'.op = "stopAgent") =>
             /\ lastCall'.id \notin DOMAIN activeRunners'
             /\ \A a \in RegistryIds :
                   lastCall'.id = a => wakeAgent(World, a)' = World'
         ]_vars

\* startAgent has returned the runner that was registered for CEO, which is in
\* the middle of a Gateway call
C33_Witness ==
    /\ lastCall # NoCall
    /\ lastCall.op = "startAgent"
    /\ lastCall.id = CEO
    /\ lastCall.outcome = "returns"
    /\ Len(runners) = 1
    /\ lastCall.ret = 1
    /\ runners[1].pc = "llm"

\* C37: at any time at most one runner task of an agent is in a busy cycle,
\* also when stopAgent and startAgent for the agent are called while its first
\* runner is suspended in a Gateway call.
C37_OneBusyTaskPerAgent ==
    \A r1, r2 \in 1..Len(runners) :
        (r1 # r2 /\ runners[r1].agent = runners[r2].agent) =>
            ~(runners[r1].pc \in Busy /\ runners[r2].pc \in Busy)

(***************************************************************************)
(* A flush, one store.set at a time: the five calls of the timer callback  *)
(* are separate writes to durable storage, and the process may stop        *)
(* between two of them.  `seen` holds the states the cache has been in.    *)
(***************************************************************************)
Collections == <<"workspaces", "agents", "groups", "messages", "lastReads">>

\* durable storage after the first k store.set calls of a flush
storeSets(durable, w, k) ==
    [key \in DOMAIN durable |->
        IF \E i \in 1..k : Collections[i] = key
        THEN Snapshot(w)[key] ELSE durable[key]]

InitStops ==
    /\ Is(createCompany)
    /\ budget = MaxFlushOps
    /\ p2pCalls = <<>>
    /\ sentLog = <<>>
    /\ marked = {}
    /\ lastCall = NoCall
    /\ spawned = <<>>
    /\ protocolCache = <<>>
    /\ calls = <<>>
    /\ flush = [flushTimer |-> NULL, timers |-> {}, nextTimer |-> 1,
                durable |-> Snapshot(createCompany),
                seen |-> {Snapshot(createCompany)}, stopped |-> FALSE]
    /\ transcript = NoTranscript

MutateSeen ==
    \E m \in Mutations(World) :
        /\ ~flush.stopped
        /\ flush.nextTimer <= MaxFlushOps
        /\ WithinBounds(m.w)
        /\ Become(m.w)
        /\ flush' = [scheduleFlush(flush) EXCEPT !.seen = @ \cup {Snapshot(m.w)}]
        /\ lastCall' = [op |-> m.op]
        /\ UNCHANGED notFlush

\* the callback of the timer runs to its end
FlushCompletes ==
    \E timer \in flush.timers :
        /\ ~flush.stopped
        /\ Become(World)
        /\ flush' = [onFlushTimer(flush, World, timer) EXCEPT
                        !.durable = storeSets(flush.durable, World, Len(Collections))]
        /\ lastCall' = [op |-> "timer"]
        /\ UNCHANGED notFlush

\* the process stops after k of the five store.set calls of the callback
FlushStops(k) ==
    \E timer \in flush.timers :
        /\ ~flush.stopped
        /\ Become(World)
        /\ flush' = [flush EXCEPT !.durable = storeSets(flush.durable, World, k),
                                  !.stopped = TRUE]
        /\ lastCall' = [op |-> "stops", k |-> k]
        /\ UNCHANGED notFlush

NextStops ==
    \/ MutateSeen
    \/ FlushCompletes
    \/ \E k \in 1..(Len(Collections) - 1) : FlushStops(k)

SpecStops == InitStops /\ [][NextStops]_vars

\* C34: durable storage holds the five collections of one state of the cache,
\* also when the process stops part-way through a flush.
C34_AtomicSnapshot == flush.durable \in flush.seen

\* C35: for every message a tool call of the runtime appends to a group, a
\* `message.created` notification with the group id and the sender id is
\* emitted.
C35_MessageCreatedEmitted ==
    [][lastCall'.op = "executeTool" =>
          \A g \in DOMAIN messages' :
              Len(messages'[g]) > Len(groupMessages(World, g)) =>
                  \E i \in 1..Len(lastCall'.emitted) :
                      /\ lastCall'.emitted[i].type = "message.created"
                      /\ lastCall'.emitted[i].groupId = g
                      /\ lastCall'.emitted[i].agentId =
                             messages'[g][Len(messages'[g])].senderId
      ]_vars

\* C36: one callLLM makes at most two backend calls; it makes the second only
\* when a profile URL is set and the first failure is response-shaped, never
\* after a timeout; and a callLLM that ends in an error has not written the
\* protocol cache: the cache changes only in a step in which a call returns.
C36_AtMostOneRetry ==
    [][/\ \A i \in 1..Len(calls') :
            LET c == calls'[i]
            IN /\ Len(c.attempts) <= 2
               /\ Len(c.attempts) = 2 =>
                     /\ c.profileUrl # NoUrl
                     /\ c.errors # <<>>
                     /\ isNetworkError(c.errors[1])
                     /\ c.errors[1] # "timeout"
               /\ c.pc = "thrown" => Len(c.errors) = Len(c.attempts)
               /\ (i <= Len(calls) /\ calls[i].pc # "thrown" /\ c.pc = "thrown") =>
                     protocolCache' = protocolCache
       /\ protocolCache' # protocolCache =>
            \E i \in 1..Len(calls) :
                calls[i].pc \in {"first", "retry"} /\ calls'[i].pc = "returned"
      ]_vars

\* a call to the profile URL has thrown after its retry failed as well, and
\* the cache has no entry for the URL
C36_Witness ==
    \E i \in 1..Len(calls) :
        /\ calls[i].pc = "thrown"
        /\ Len(calls[i].attempts) = 2
        /\ calls[i].profileUrl = U1
        /\ U1 \notin DOMAIN protocolCache

\* C38: the read cursor of an agent for a group never moves back: each
\* markAsRead of a runner sets it to a message that is not earlier in the
\* group's append order (ids grow in append order) than the one it pointed to.
C38_CursorMonotonic ==
    [][\A a \in AgentPool, g \in 1..MaxGroups :
          LET old == getLastReadMessageId(World, a, g)
              new == getLastReadMessageId(World, a, g)'
          IN old # NULL => new >= old
      ]_vars

(***************************************************************************)
(* A Gateway that may fail, for a runner that serves two groups            *)
(***************************************************************************)
InitThrow ==
    /\ Is(startAgent(createCompany, CEO, W1))
    /\ budget = MaxThrowMsgs
    /\ p2pCalls = <<>>
    /\ sentLog = <<>>
    /\ NoOtherCalls

NextThrow ==
    \/ ChatInGroup
    \/ SendUserMessage(CEO)
    \/ \E r \in 1..Len(runners) : Resume(r)
    \/ \E r \in 1..Len(runners) : LLMReturn(r, TextResponses)
    \/ \E r \in 1..Len(runners) : LLMThrow(r)
    \/ \E r \in 1..Len(runners) : AfterRespond(r)

SpecThrow == InitThrow /\ [][NextThrow]_vars

\* C39: when the conversation loop for a group throws, the failed cycle leaves
\* every read cursor as it is, so the batch is unread again at the next wake;
\* the cursors of the groups drained before keep their value, and the groups
\* after it in the scan are not handled in that cycle: the runner goes back to
\* the idle wait.
C39_ThrowKeepsCursor ==
    [][\A r \in 1..Len(runners) :
          (runners[r].pc = "llm" /\ runners'[r].pc = "waiting" /\ runners'[r].threw) =>
              LET a == runners[r].agent
                  g == Head(runners[r].groups)
              IN /\ lastReads' = lastReads
                 /\ messages' = messages
                 /\ \A h \in 1..MaxGroups :
                       getLastReadMessageId(World, a, h)' = getLastReadMessageId(World, a, h)
                 /\ Range(runners[r].newMessages) \subseteq
                       Range(ids(getUnreadMessages(World, g,
                                     getLastReadMessageId(World, a, g)).msgs))
                 /\ ~runners'[r].resolved
                 /\ runners'[r].groups = <<>>
                 /\ runners'[r].llmCalls = 0
      ]_vars

\* the call for the peer group has thrown after the all-hands group was
\* drained and marked: the peer group's message is unread, with no cursor
C39_Witness ==
    \E r \in 1..Len(runners) :
        /\ runners[r].threw
        /\ runners[r].pc = "waiting"
        /\ getLastReadMessageId(World, runners[r].agent, AllHands) # NULL
        /\ getLastReadMessageId(World, runners[r].agent, 2) = NULL
        /\ FromOthers(UnreadOf(World, runners[r].agent, 2), runners[r].agent)

\* C40: the sender of every message a tool call appends to a group is a
\* member of that group when the message is sent, whatever group id the call
\* names.
C40_SenderIsMember ==
    [][lastCall'.op = "executeTool" =>
          \A g \in DOMAIN messages' : \A i \in 1..Len(messages'[g]) :
              messages'[g][i].id >= World.nextMsgId =>
                  \E k \in 1..Len(groups') :
                      /\ groups'[k].id = g
                      /\ messages'[g][i].senderId \in Range(groups'[k].memberIds)
      ]_vars

=============================================================================
